---- MODULE Spec2Model ----
(***************************************************************************)
(* Model of the pipeline engine of automated_defi: slug assignment at      *)
(* Pipeline construction (pipeline.py, Pipeline._init_slugs and            *)
(* Group.walk) and the traversal of Group / Repeat steps by a Visitor      *)
(* (Group._eval_condition, Group.accept, Repeat.accept).                   *)
(*                                                                         *)
(* A pipeline tree is a table of step objects, indexed by object identity. *)
(* Construction is one action.  During an invocation every call of a       *)
(* visitor method is one action: the action holds the engine code that     *)
(* runs between this visitor call and the next one, and the visitor's      *)
(* answer is drawn from a small set.                                       *)
(***************************************************************************)
EXTENDS Integers, Sequences, FiniteSets, TLC

VARIABLES
    pc,       \* "new" | "ready" | "failed" | "running" | "done" | "error"
    tree,     \* the step objects: id -> [cls, slug, given, entry_condition, steps, max]
    root,     \* id of the root step
    author,   \* id -> slug as written by the pipeline author ("" when omitted)
    stack,    \* the call stack of accept() frames, innermost last
    state,    \* the State threaded through the traversal
    log,      \* every visitor call (and logger.warn) made so far, in order
    invs,     \* number of Group/Repeat invocations entered so far
    err,      \* the exception that ended construction or the invocation, or "none"
    result,   \* what Pipeline.__call__ returned
    sid,      \* identity of the object the engine holds as its working state
    raised,   \* the exceptions raised during the invocation, with their arguments
    visitor,  \* the executor passed to Pipeline.__call__
    runs      \* the invocations made so far: user_params and, once over, the outcome

vars == <<pc, tree, root, author, stack, state, log, invs, err, result,
          sid, raised, visitor, runs>>

(***************************************************************************)
(* Bounds of the model.                                                    *)
(***************************************************************************)
MaxRepeat == 3      \* user-supplied and literal values of Repeat.max go up to this
MaxExplicit == 2    \* author-supplied slugs per tree in the construction specification
MaxSupplied == 1    \* user-supplied values per document, for Params other than max
MaxRuns == 2        \* invocations of one Pipeline

(***************************************************************************)
(* Program constants.                                                      *)
(***************************************************************************)
DefaultMax == 50

(***************************************************************************)
(* Strings.  camel_to_snake works on the characters of a class name, so a  *)
(* name is a sequence of one-character strings; Join turns the result      *)
(* into a string again.                                                    *)
(***************************************************************************)
UpperChars == <<"A","B","C","D","E","F","G","H","I","J","K","L","M",
                "N","O","P","Q","R","S","T","U","V","W","X","Y","Z">>
LowerChars == <<"a","b","c","d","e","f","g","h","i","j","k","l","m",
                "n","o","p","q","r","s","t","u","v","w","x","y","z">>
DigitChars == <<"0","1","2","3","4","5","6","7","8","9">>

Range(s) == {s[i] : i \in DOMAIN s}
IsUpper(ch) == ch \in Range(UpperChars)
IsLower(ch) == ch \in Range(LowerChars)
IsDigit(ch) == ch \in Range(DigitChars)

\* str.lower() on one character
LowerOf(ch) ==
    IF IsUpper(ch)
    THEN LowerChars[CHOOSE i \in DOMAIN UpperChars : UpperChars[i] = ch]
    ELSE ch

RECURSIVE Join(_)
Join(s) == IF s = <<>> THEN "" ELSE Head(s) \o Join(Tail(s))

\* end of the greedy run [a-z]+ that starts at position p (p itself is lowercase)
RECURSIVE LowerRunEnd(_, _)
LowerRunEnd(s, p) ==
    IF p + 1 <= Len(s) /\ IsLower(s[p + 1]) THEN LowerRunEnd(s, p + 1) ELSE p

\* _first1.sub(r"\1_\2", name) with _first1 = (.)([A-Z][a-z]+), scanning from p
RECURSIVE First1Sub(_, _)
First1Sub(s, p) ==
    IF p > Len(s) THEN <<>>
    ELSE IF p + 2 <= Len(s) /\ IsUpper(s[p + 1]) /\ IsLower(s[p + 2])
         THEN LET e == LowerRunEnd(s, p + 2)
              IN  <<s[p], "_">> \o SubSeq(s, p + 1, e) \o First1Sub(s, e + 1)
         ELSE <<s[p]>> \o First1Sub(s, p + 1)

\* _all2.sub(r"\1_\2", subbed) with _all2 = ([a-z0-9])([A-Z]), scanning from p
RECURSIVE All2Sub(_, _)
All2Sub(s, p) ==
    IF p > Len(s) THEN <<>>
    ELSE IF p + 1 <= Len(s) /\ (IsLower(s[p]) \/ IsDigit(s[p])) /\ IsUpper(s[p + 1])
         THEN <<s[p], "_", s[p + 1]>> \o All2Sub(s, p + 2)
         ELSE <<s[p]>> \o All2Sub(s, p + 1)

\* without the second substitution (_all2)
camel_to_snake_first1_only(name) ==
    LET subbed == First1Sub(name, 1)
    IN  Join([i \in DOMAIN subbed |-> LowerOf(subbed[i])])

camel_to_snake(name) ==
    LET subbed == First1Sub(name, 1)
        all    == All2Sub(subbed, 1)
    IN  Join([i \in DOMAIN all |-> LowerOf(all[i])])

\* el.__class__.__name__, as characters
ClassName(cls) ==
    CASE cls = "Transform"   -> <<"T","r","a","n","s","f","o","r","m">>
      [] cls = "Expr"        -> <<"E","x","p","r">>
      [] cls = "Group"       -> <<"G","r","o","u","p">>
      [] cls = "Repeat"      -> <<"R","e","p","e","a","t">>
      [] cls = "Balance"     -> <<"B","a","l","a","n","c","e">>
      [] cls = "BorrowLimit" -> <<"B","o","r","r","o","w","L","i","m","i","t">>
      [] cls = "HarvestLQTY" -> <<"H","a","r","v","e","s","t","L","Q","T","Y">>
      [] cls = "LQTYAccrued" -> <<"L","Q","T","Y","A","c","c","r","u","e","d">>
      [] cls = "Allowance"   -> <<"A","l","l","o","w","a","n","c","e">>
      [] cls = "DepositLUSD" -> <<"D","e","p","o","s","i","t","L","U","S","D">>
      [] cls = "Redeem"      -> <<"R","e","d","e","e","m">>

\* "{}_{}".format(base_slug, i)
FormatSlug(base_slug, i) == base_slug \o "_" \o ToString(i)

(***************************************************************************)
(* Values.  A scalar carries its Python type.                              *)
(***************************************************************************)
NoneVal == [t |-> "none"]
IntVal(v) == [t |-> "int", v |-> v]

StrVal(s) == [t |-> "str", v |-> s]
BoolVal(b) == [t |-> "bool", v |-> b]
\* a Decimal (cls "Decimal") or an assets.Asset subclass, held by its digits
DecVal(cls, s) == [t |-> "dec", cls |-> cls, v |-> s]

\* the numerals int() parses, and the further ones Decimal() parses
IntRange == (0 - 1) .. DefaultMax
IsIntString(s) == \E i \in IntRange : ToString(i) = s
IntOfString(s) == CHOOSE i \in IntRange : ToString(i) = s
FractionStrings == {"0.8", "0.9"}
IsDecString(s) == IsIntString(s) \/ s \in FractionStrings

DecimalTypes == {"Decimal", "Token", "CToken"}

\* a coercion that accepts every string
CoerceUnchecked(type, raw) ==
    CASE type = "int" ->
            [ok |-> TRUE,
             v |-> IF raw.t = "str" /\ IsIntString(raw.v)
                   THEN IntVal(IntOfString(raw.v)) ELSE raw]
      [] OTHER -> [ok |-> TRUE, v |-> raw]

\* p.type(raw) of lines 199 and 213: the constructors int, str, bool and
\* Decimal (assets.Token and assets.CToken are Decimal subclasses) applied to
\* a str, int, bool or Decimal; ok is FALSE when the constructor raises
Coerce(type, raw) ==
    CASE type = "int" ->
            CASE raw.t = "int"  -> [ok |-> TRUE, v |-> raw]
              [] raw.t = "bool" -> [ok |-> TRUE, v |-> IntVal(IF raw.v THEN 1 ELSE 0)]
              [] raw.t = "str"  ->
                    IF IsIntString(raw.v)
                    THEN [ok |-> TRUE, v |-> IntVal(IntOfString(raw.v))]
                    ELSE [ok |-> FALSE]
              [] raw.t = "dec"  ->
                    [ok |-> TRUE,
                     v |-> IntVal(IF IsIntString(raw.v) THEN IntOfString(raw.v) ELSE 0)]
              [] OTHER -> [ok |-> FALSE]
      [] type = "str" ->
            CASE raw.t = "str"  -> [ok |-> TRUE, v |-> raw]
              [] raw.t = "int"  -> [ok |-> TRUE, v |-> StrVal(ToString(raw.v))]
              [] raw.t = "bool" -> [ok |-> TRUE, v |-> StrVal(IF raw.v THEN "True" ELSE "False")]
              [] raw.t = "dec"  -> [ok |-> TRUE, v |-> StrVal(raw.v)]
              [] OTHER -> [ok |-> TRUE, v |-> StrVal("None")]
      [] type = "bool" ->
            CASE raw.t = "str"  -> [ok |-> TRUE, v |-> BoolVal(raw.v # "")]
              [] raw.t = "int"  -> [ok |-> TRUE, v |-> BoolVal(raw.v # 0)]
              [] raw.t = "bool" -> [ok |-> TRUE, v |-> raw]
              [] raw.t = "dec"  -> [ok |-> TRUE, v |-> BoolVal(raw.v # "0")]
              [] OTHER -> [ok |-> TRUE, v |-> BoolVal(FALSE)]
      [] type \in DecimalTypes ->
            CASE raw.t = "str"  ->
                    IF IsDecString(raw.v)
                    THEN [ok |-> TRUE, v |-> DecVal(type, raw.v)]
                    ELSE [ok |-> FALSE]
              [] raw.t = "int"  -> [ok |-> TRUE, v |-> DecVal(type, ToString(raw.v))]
              [] raw.t = "bool" -> [ok |-> TRUE, v |-> DecVal(type, IF raw.v THEN "1" ELSE "0")]
              [] raw.t = "dec"  -> [ok |-> TRUE, v |-> DecVal(type, raw.v)]
              [] OTHER -> [ok |-> FALSE]

\* type(): the value a constructor returns without argument
ZeroOf(type) ==
    CASE type = "int"  -> IntVal(0)
      [] type = "str"  -> StrVal("")
      [] type = "bool" -> BoolVal(FALSE)
      [] type \in DecimalTypes -> DecVal(type, "0")

\* the values Python treats as false in `default or type()`
Falsy(val) ==
    \/ val.t = "none"
    \/ val.t = "int" /\ val.v = 0
    \/ val.t = "str" /\ val.v = ""
    \/ val.t = "bool" /\ val.v = FALSE
    \/ val.t = "dec" /\ val.v = "0"

(***************************************************************************)
(* Declared fields.  A field of a step, or an element of Transform.args,   *)
(* holds a literal, a Param, a Ref or something else (a list, a float).   *)
(***************************************************************************)
Lit(val) == [tag |-> "lit", v |-> val]
Param(type, key, required, default) ==
    [tag |-> "param", type |-> type, key |-> key, required |-> required,
     default |-> default]
Ref(key, required, default) ==
    [tag |-> "ref", key |-> key, required |-> required, default |-> default]
Other == [tag |-> "other"]

\* isinstance(p, (str, bool, int, Decimal))
IsLiteral(p) == p.tag = "lit" /\ p.v.t \in {"str", "bool", "int", "dec"}

\* cls._formal_params(): the dataclass fields whose class attribute is a Param
FormalParams(cls) ==
    CASE cls = "Balance" ->
            <<[name |-> "token", param |-> Param("str", "token", TRUE, StrVal("ETH"))]>>
      [] cls = "Allowance" ->
            <<[name |-> "token", param |-> Param("str", "token", TRUE, StrVal("ETH"))]>>
      [] cls = "BorrowLimit" ->
            <<[name |-> "token", param |-> Param("str", "token", TRUE, StrVal("ETH"))],
              [name |-> "borrow_limit_fraction",
               param |-> Param("Decimal", "borrow_limit_fraction", TRUE,
                               DecVal("Decimal", "0.8"))]>>
      [] cls = "DepositLUSD" ->
            <<[name |-> "amount", param |-> Param("Token", "amount", TRUE, NoneVal)]>>
      [] cls = "Redeem" ->
            <<[name |-> "c_token", param |-> Param("str", "c_token", TRUE, NoneVal)],
              [name |-> "amount", param |-> Param("CToken", "amount", TRUE, NoneVal)]>>
      [] cls = "Repeat" ->
            <<[name |-> "max", param |-> Param("int", "max", TRUE, IntVal(DefaultMax))]>>
      [] OTHER -> <<>>

(***************************************************************************)
(* Step objects.                                                           *)
(***************************************************************************)
NoMax == [tag |-> "none"]
LitMax(v) == [tag |-> "lit", v |-> v]
\* Param[int](key="max", type=int, default=d)
ParamMax(d) ==
    [tag |-> "param", type |-> "int", key |-> "max", default |-> d, required |-> TRUE]

\* a step as the dataclass builds it: every field at its class default
LeafStep(cls, slug) ==
    [cls |-> cls, slug |-> slug, given |-> <<>>, entry_condition |-> 0,
     steps |-> <<>>, max |-> NoMax,
     fields |-> [k \in DOMAIN FormalParams(cls) |-> FormalParams(cls)[k].param],
     args |-> <<>>]
\* a step whose author set the fields (in the order of the class's formal
\* parameters) or, for a Transform or Expr, the args
FieldStep(cls, slug, fields) == [LeafStep(cls, slug) EXCEPT !.fields = fields]
ArgsStep(cls, slug, args) == [LeafStep(cls, slug) EXCEPT !.args = args]
GroupStep(slug, given, ec, steps) ==
    [cls |-> "Group", slug |-> slug, given |-> given, entry_condition |-> ec,
     steps |-> steps, max |-> NoMax, fields |-> <<>>, args |-> <<>>]
RepeatStep(slug, given, ec, steps, max) ==
    [cls |-> "Repeat", slug |-> slug, given |-> given, entry_condition |-> ec,
     steps |-> steps, max |-> max, fields |-> <<>>, args |-> <<>>]

IsComposite(t, n) == t[n].cls \in {"Group", "Repeat"}

\* Step.walk / Group.walk: the steps in the order the generator yields them
RECURSIVE WalkSeq(_, _, _)
RECURSIVE Walk(_, _)
WalkSeq(t, ids, k) ==
    IF k > Len(ids) THEN <<>> ELSE Walk(t, ids[k]) \o WalkSeq(t, ids, k + 1)
\* the steps in the order of their declaration in the source file
WalkDeclared(t, n) == [i \in 1 .. Len(t) |-> i]

Walk(t, n) ==
    <<n>> \o WalkSeq(t, t[n].given, 1)
          \o (IF t[n].entry_condition # 0 THEN Walk(t, t[n].entry_condition) ELSE <<>>)
          \o WalkSeq(t, t[n].steps, 1)

(***************************************************************************)
(* Pipeline._init_slugs                                                    *)
(***************************************************************************)
\* an `if` in place of the `while`: one renaming attempt only
UniqueSlugOnce(base_slug, slug, i, seen) ==
    IF slug \in seen THEN FormatSlug(base_slug, i) ELSE slug

\* the while loop of lines 116-118
RECURSIVE UniqueSlug(_, _, _, _)
UniqueSlug(base_slug, slug, i, seen) ==
    IF slug \in seen
    THEN UniqueSlug(base_slug, FormatSlug(base_slug, i), i + 1, seen)
    ELSE slug

AutoSlug(cls, seen) ==
    LET base_slug == camel_to_snake(ClassName(cls))
    IN  UniqueSlug(base_slug, base_slug, 1, seen)

\* no uniqueness check of pre-assigned slugs
NeverDuplicate(slug, seen) == FALSE

\* line 106: a pre-assigned slug that was already seen
IsDuplicate(slug, seen) == slug \in seen

\* the for loop of lines 103-121 from the k-th element of the walk on
RECURSIVE InitSlugsFrom(_, _, _, _)
InitSlugsFrom(t, w, k, seen) ==
    IF k > Len(w) THEN [ok |-> TRUE, tree |-> t]
    ELSE LET el == w[k]
         IN  IF t[el].slug # ""
             THEN IF IsDuplicate(t[el].slug, seen)
                  THEN [ok |-> FALSE, tree |-> t]
                  ELSE InitSlugsFrom(t, w, k + 1, seen \cup {t[el].slug})
             ELSE LET slug == AutoSlug(t[el].cls, seen)
                  IN  InitSlugsFrom([t EXCEPT ![el].slug = slug], w, k + 1,
                                    seen \cup {slug})

init_slugs(t, r) == InitSlugsFrom(t, Walk(t, r), 1, {})

(***************************************************************************)
(* State (a mapping), user-parameter documents and values.                 *)
(*                                                                         *)
(* A user-parameter document is a nested mapping keyed by slug; it is kept *)
(* as the mapping from the path of each scalar to its value.  Scalars      *)
(* carry their Python type.                                                *)
(***************************************************************************)
EmptyState == << >>
StateGet(st, k, d) == IF k \in DOMAIN st THEN st[k] ELSE d
StatePut(st, k, v) == (k :> v) @@ st

\* user_params.get(slug, {}) for a nested mapping
SubDoc(doc, slug) ==
    LET under == {q \in DOMAIN doc : Len(q) > 1 /\ Head(q) = slug}
    IN  [p \in {Tail(q) : q \in under} |-> doc[<<slug>> \o p]]
\* user_params.get(key, default) for a scalar
DocGet(doc, key, default) == IF <<key>> \in DOMAIN doc THEN doc[<<key>>] ELSE default

\* the second argument of the errors of _prepare_args for element i of args
ArgName(i, key) == "args[" \o ToString(i - 1) \o "], key=" \o key

Resolved(val) == [ok |-> TRUE, v |-> val]
Failed(e, slug, key) == [ok |-> FALSE, err |-> e, slug |-> slug, key |-> key]

\* lines 208 and 270: user_param is None or user_param == ""
IsMissing(user_param) == user_param.t = "none" \/ user_param = StrVal("")

\* a lookup that prefers the declared default
RawValueDefaultFirst(p, user_params) ==
    IF p.default.t # "none" THEN p.default
    ELSE IF <<p.key>> \in DOMAIN user_params THEN user_params[<<p.key>>] ELSE p.default

\* lines 206 and 268: user_params.get(p.key, p.default)
RawValue(p, user_params) == DocGet(user_params, p.key, p.default)

\* a Param branch that never raises MissingParamError
ResolveParamLenient(p, user_params, slug, name) ==
    LET user_param == RawValue(p, user_params)
    IN  IF IsMissing(user_param) THEN Resolved(NoneVal)
        ELSE LET actual == Coerce(p.type, user_param)
             IN  IF actual.ok THEN Resolved(actual.v)
                 ELSE Failed("InvalidParamTypeError", slug, name)

\* the Param branch of _prepare_args (lines 205-216, 267-280)
ResolveParam(p, user_params, slug, name) ==
    LET user_param == RawValue(p, user_params)
    IN  IF IsMissing(user_param)
        THEN IF p.required
             THEN Failed("MissingParamError", slug, name)
             ELSE Resolved(NoneVal)
        ELSE LET actual == Coerce(p.type, user_param)
             IN  IF actual.ok THEN Resolved(actual.v)
                 ELSE Failed("InvalidParamTypeError", slug, name)

\* the value a state holds under key k, as a Python value
StateVal(st, k) == IF k = "_condition_" THEN BoolVal(st[k]) ELSE IntVal(st[k])

\* a reference that is looked up in the user document
RefValueFromUser(p, st, user_params) == DocGet(user_params, p.key, p.default)

\* lines 218 and 282: state.get(p.key, p.default)
RefValue(p, st, user_params) ==
    IF p.key \in DOMAIN st THEN StateVal(st, p.key) ELSE p.default

\* the Ref branch of _prepare_args (lines 217-220, 281-284)
ResolveRef(p, st, user_params, slug) ==
    LET actual == RefValue(p, st, user_params)
    IN  IF actual.t = "none" /\ p.required
        THEN Failed("InvalidReferenceError", slug, p.key)
        ELSE Resolved(actual)

\* Step._prepare_args, one pass of the loop over the formal parameters
\* (lines 195-222): formal is the class attribute, p the value of the field
ResolveField(formal, p, st, user_params, slug) ==
    IF IsLiteral(p)
    THEN LET actual == Coerce(formal.param.type, p.v)
         IN  IF ~actual.ok
             THEN Failed("InvalidParamTypeError", slug, formal.param.key)
             ELSE IF actual.v.t = "none" /\ formal.param.required
             THEN Failed("InvalidFormalParamError", slug, formal.name)
             ELSE Resolved(actual.v)
    ELSE IF p.tag = "param" THEN ResolveParam(p, user_params, slug, p.key)
    ELSE IF p.tag = "ref" THEN ResolveRef(p, st, user_params, slug)
    ELSE Failed("InvalidFormalParamTypeError", slug, formal.name)

\* Transform._prepare_args, one pass of the loop over args (lines 264-286)
ResolveArg(p, i, st, user_params, slug) ==
    IF IsLiteral(p) THEN Resolved(p.v)
    ELSE IF p.tag = "param" THEN ResolveParam(p, user_params, slug, ArgName(i, p.key))
    ELSE IF p.tag = "ref" THEN ResolveRef(p, st, user_params, slug)
    ELSE Failed("InvalidFormalParamTypeError", slug, "args[" \o ToString(i - 1) \o "]")

\* the loops of _prepare_args from position k on; done holds the values so far
RECURSIVE ResolveFieldsFrom(_, _, _, _, _)
ResolveFieldsFrom(step, k, done, st, user_params) ==
    IF k > Len(step.fields) THEN [ok |-> TRUE, v |-> done]
    ELSE LET r == ResolveField(FormalParams(step.cls)[k], step.fields[k], st,
                               user_params, step.slug)
         IN  IF r.ok
             THEN ResolveFieldsFrom(step, k + 1, Append(done, r.v), st, user_params)
             ELSE r

RECURSIVE ResolveArgsFrom(_, _, _, _, _)
ResolveArgsFrom(step, i, done, st, user_params) ==
    IF i > Len(step.args) THEN [ok |-> TRUE, v |-> done]
    ELSE LET r == ResolveArg(step.args[i], i, st, user_params, step.slug)
         IN  IF r.ok
             THEN ResolveArgsFrom(step, i + 1, Append(done, r.v), st, user_params)
             ELSE r

IsTransform(cls) == cls \in {"Transform", "Expr"}

\* Step._prepare_args / Transform._prepare_args: the resolved copy of the
\* step (its field values and, for a Transform, its args), or the error
PrepareArgs(step, st, user_params) ==
    LET f == ResolveFieldsFrom(step, 1, <<>>, st, user_params)
    IN  IF ~f.ok THEN f
        ELSE IF ~IsTransform(step.cls)
        THEN [ok |-> TRUE, fields |-> f.v, args |-> <<>>]
        ELSE LET a == ResolveArgsFrom(step, 1, <<>>, st, user_params)
             IN  IF ~a.ok THEN a
                 ELSE [ok |-> TRUE, fields |-> f.v, args |-> a.v]

\* Step._prepare_args for the formal parameter `max` of a Repeat
ResolveMax(p, user_params) ==
    IF p.tag = "lit" THEN [ok |-> TRUE, v |-> p.v]
    ELSE LET r == ResolveParam(p, user_params, "", p.key)
         IN  IF ~r.ok THEN [ok |-> FALSE, err |-> r.err]
             ELSE IF r.v.t = "none"
             THEN [ok |-> FALSE, err |-> "TypeError"]   \* range(None)
             ELSE [ok |-> TRUE, v |-> r.v.v]

(***************************************************************************)
(* The Visitor.  A leaf method returns the state it was given with one     *)
(* more execution counted under the step's slug, and any chain_effect;     *)
(* expr stores the value of step.func under _condition_ (Visitor.expr),   *)
(* or, for an executor that overrides expr without storing a condition,   *)
(* returns the state as it is; the enter/exit hooks return the state      *)
(* unchanged.                                                              *)
(***************************************************************************)
VisitorMethod(cls) ==
    CASE cls = "Transform"   -> "transform"
      [] cls = "Expr"        -> "expr"
      [] cls = "Balance"     -> "balance"
      [] cls = "BorrowLimit" -> "borrow_limit"
      [] cls = "HarvestLQTY" -> "harvest_lqty"
      [] cls = "LQTYAccrued" -> "lqty_accrued"
      [] cls = "Allowance"   -> "allowance"
      [] cls = "DepositLUSD" -> "deposit_lusd"
      [] cls = "Redeem"      -> "redeem"

LeafResult(st, slug) == StatePut(st, slug, StateGet(st, slug, 0) + 1)

ExprAnswers == {"true", "false", "keep"}
ExprResult(st, answer) ==
    IF answer = "keep" THEN st ELSE StatePut(st, "_condition_", answer = "true")

\* an executor whose methods may answer anything, and the executors whose
\* answers are a function of the step and the state they receive: a step
\* that acts on the chain reports a chain effect in its first `effects`
\* executions, and every Expr stores the same condition
FreeVisitor == [kind |-> "free", effects |-> 0, gate |-> "keep"]
DetVisitors ==
    {[kind |-> "det", effects |-> e, gate |-> g] : e \in {0, 1}, g \in {"true", "false"}}
ActingClasses == {"Transform", "HarvestLQTY", "DepositLUSD", "Redeem"}

\* the chain_effect a visitor method may return
ChainEffects(cls, st, slug) ==
    IF visitor.kind = "free" THEN BOOLEAN
    ELSE {(cls \in ActingClasses) /\ (StateGet(st, slug, 0) < visitor.effects)}
GateAnswers == IF visitor.kind = "free" THEN ExprAnswers ELSE {visitor.gate}
\* whether a visitor method may raise an error of its own
VisitorRaises == IF visitor.kind = "free" THEN BOOLEAN ELSE {FALSE}

\* the states a visitor method of class cls may return for state st
VisitorStates(cls, st, slug) ==
    IF cls = "Expr" THEN {ExprResult(st, a) : a \in GateAnswers}
    ELSE {LeafResult(st, slug)}

\* Visitor.transform returns what step.func returns, a new mapping; the other
\* methods write into the mapping they received and return it
ReturnsNewObject(op) == op = "transform"

\* the state handed over without a copy
DeepcopyAliases(id, fresh) == id

\* deepcopy(state): a new object
Deepcopy(id, fresh) == fresh

\* Step.accept is inherited, and returns Evaluation(state), by the one step
\* class that defines `run` in place of `accept`
AcceptCallsVisitor(cls) == cls # "Allowance"

(***************************************************************************)
(* Group._eval_condition, Group.accept, Repeat.accept: the decisions.      *)
(***************************************************************************)
\* a guard that is allowed to report a chain effect
GuardNeverRaises(chain_effect) == FALSE

\* lines 321 and 329: a chain effect in a guard or entry condition raises
GuardRaises(chain_effect) == chain_effect

\* a gate that is open when the entry condition stored nothing
ConditionDefaultTrue(st) == StateGet(st, "_condition_", TRUE)

\* line 334: state.get("_condition_", False)
ConditionOf(st) == StateGet(st, "_condition_", FALSE)

\* the flag of the last child only
LastChainEffect(any_chain_effect, chain_effect) == chain_effect

\* lines 349 and 396: any_chain_effect = any_chain_effect or chain_effect
AccumulateChainEffect(any_chain_effect, chain_effect) ==
    any_chain_effect \/ chain_effect

\* line 344: if condition: (the children of a Group are executed)
GateOpen(condition) == condition

\* a loop that ignores its entry condition
NeverBreakOnCondition(condition) == FALSE

\* line 389: if not condition: break
BreakOnCondition(condition) == ~condition

\* line 399: if not any_chain_effect: break
BreakNoEffect(any_chain_effect) == ~any_chain_effect

\* a loop that runs one pass too many
RangeOneMore(c, max) == c + 1 <= max

\* line 386: range(self.max) has an element after c
RangeHasNext(c, max) == c + 1 < max

\* line 386: range(self.max) is not empty
RangeNonEmpty(max) == 0 < max

\* a warning only after more than max passes
CapNeverReached(c, max) == c >= max

\* line 402
CapReached(c, max) == c >= max - 1

(***************************************************************************)
(* Frames.  A frame is one activation of Pipeline.__call__ ("Call"),       *)
(* Group.accept or Repeat.accept, at the point of its next visitor call:   *)
(* phase "given" (guard g is next), "cond" (the entry condition is next),  *)
(* "steps" (child j is next) or "exit" (the exit hook / the return).       *)
(***************************************************************************)
GivenOf(f) == IF f.kind = "Call" THEN <<>> ELSE tree[f.node].given
EntryConditionOf(f) == IF f.kind = "Call" THEN 0 ELSE tree[f.node].entry_condition
StepsOf(f) == IF f.kind = "Call" THEN <<root>> ELSE tree[f.node].steps

\* the engine code from the return of one visitor call to the next call
RECURSIVE Settle(_)
Settle(f) ==
    CASE f.phase = "given" ->
            IF f.g <= Len(GivenOf(f)) THEN f
            ELSE IF EntryConditionOf(f) # 0 THEN [f EXCEPT !.phase = "cond"]
            ELSE Settle([f EXCEPT !.phase = "steps", !.cond = TRUE, !.j = 1])
      [] f.phase = "steps" ->
            IF f.kind = "Repeat" /\ BreakOnCondition(f.cond)
            THEN [f EXCEPT !.phase = "exit"]
            ELSE IF f.kind # "Repeat" /\ ~GateOpen(f.cond)
            THEN [f EXCEPT !.phase = "exit"]
            ELSE IF f.j <= Len(StepsOf(f)) THEN f
            ELSE IF f.kind # "Repeat" THEN [f EXCEPT !.phase = "exit"]
            ELSE IF BreakNoEffect(f.any) THEN [f EXCEPT !.phase = "exit"]
            ELSE IF RangeHasNext(f.c, f.max)
                 THEN Settle([f EXCEPT !.c = f.c + 1, !.phase = "given", !.g = 1])
                 ELSE [f EXCEPT !.phase = "exit"]
      [] OTHER -> f

NewFrame(kind, node, inv, up, max) ==
    [kind |-> kind, node |-> node, inv |-> inv, up |-> up, max |-> max,
     c |-> 0, phase |-> "given", g |-> 1, j |-> 1, cond |-> TRUE, any |-> FALSE]

CallFrame(up) ==
    [NewFrame("Call", 0, 0, up, 0) EXCEPT !.phase = "steps"]
GroupFrame(node, inv, up) == Settle(NewFrame("Group", node, inv, up, 0))
RepeatFrame(node, inv, up, max) ==
    IF RangeNonEmpty(max)
    THEN Settle(NewFrame("Repeat", node, inv, up, max))
    ELSE [NewFrame("Repeat", node, inv, up, max) EXCEPT !.phase = "exit"]

Top == stack[Len(stack)]
Running == pc = "running" /\ stack # <<>>

\* the caller's frame after accept() of its child j returned chain_effect
Returned(f, chain_effect) ==
    Settle([f EXCEPT !.any = AccumulateChainEffect(f.any, chain_effect), !.j = f.j + 1])

\* resolution that stores the actual values in the step itself
ResolveInPlace(t, n, step) ==
    IF step.fields = <<>> THEN t
    ELSE [t EXCEPT ![n].fields = [k \in DOMAIN step.fields |-> Lit(step.fields[k])]]

\* line 223, replace(self, **actual_params): the resolved step is a new
\* object, the step of the tree keeps its declared fields
ReplaceSelf(t, n, step) == t

\* the caller's own user_params handed on to the step
ParamsOfCaller(f, n) == f.up

\* user_params handed to a step called by frame f (lines 319, 327, 347, 394, 155)
ParamsFor(f, n) == SubDoc(f.up, tree[n].slug)

(***************************************************************************)
(* The log: one entry per visitor call, in call order.  caller, c and idx  *)
(* say which activation made the accept() call, in which iteration and at  *)
(* which position of its given / steps list; role is "given",              *)
(* "entry_condition" or "step" for a leaf method and "enter" / "exit" for  *)
(* the hooks of the activation inv, called as child idx of caller.  An     *)
(* exit entry carries the Evaluation that accept() returns (ce), the last  *)
(* value of the loop variable (it) and the resolved max.  logger.warn is   *)
(* logged with role "warn".                                                *)
(***************************************************************************)
\* the objects of a visitor call: wid is the engine's working state, hid the
\* object handed to the visitor, rid the object the visitor returned
FreshId == 2 * Len(log) + 1
CallIds(op) ==
    LET hid == Deepcopy(sid, FreshId)
    IN  [wid |-> sid, hid |-> hid,
         rid |-> IF ReturnsNewObject(op) THEN FreshId + 1 ELSE hid]

NoStep == [fields |-> <<>>, args |-> <<>>]

\* o is the outcome of the call: the resolved step it was given, the
\* Evaluation it returned, or that it raised
LeafEntry(n, role, f, idx, o) ==
    LET op == VisitorMethod(tree[n].cls)
        ids == CallIds(op)
    IN  [op |-> op, node |-> n, slug |-> tree[n].slug,
         role |-> role, caller |-> f.inv, c |-> f.c, idx |-> idx, inv |-> 0,
         ce |-> o.ce, sin |-> state, sout |-> o.st, it |-> 0, max |-> 0,
         step |-> o.step, up |-> ParamsFor(f, n), raised |-> o.kind = "raise",
         wid |-> ids.wid, hid |-> ids.hid, rid |-> ids.rid]

HookEntry(op, role, caller, inv, n, max, it, ce, st, up) ==
    LET ids == CallIds(op)
    IN  [op |-> op, node |-> n, slug |-> tree[n].slug,
         role |-> role, caller |-> caller.inv, c |-> caller.c, idx |-> caller.j,
         inv |-> inv, ce |-> ce, sin |-> st, sout |-> st, it |-> it, max |-> max,
         step |-> NoStep, up |-> up, raised |-> FALSE,
         wid |-> ids.wid, hid |-> IF role = "warn" THEN ids.wid ELSE ids.hid,
         rid |-> IF role = "warn" THEN ids.wid ELSE ids.rid]

\* the family of an error: the base class errors.py gives it, "builtin" for
\* an exception of Python (RuntimeError, TypeError), "visitor" for an error
\* of the executor
Family(e) ==
    CASE e \in {"InvalidReferenceError", "InvalidFormalParamTypeError",
                "InvalidFormalParamError", "InvalidChainEffectError"}
            -> "PipelineDefinitionError"
      [] e \in {"MissingParamError", "InvalidParamTypeError"}
            -> "PipelineExecutionError"
      [] e \in {"RuntimeError", "TypeError"} -> "builtin"
      [] OTHER -> "visitor"

\* a handler around the loop over the children of a Group
CatchesInSteps(f) == f.kind = "Group" /\ f.phase = "steps"

\* Pipeline.__call__, Group.accept and Repeat.accept hold no try statement
Catches(f) == FALSE

\* raise e(slug, key): the exception leaves every frame that does not catch
\* it; a frame that caught it would go on with its next child
Raise(e, slug, key) ==
    LET h == {k \in DOMAIN stack : Catches(stack[k])}
    IN  /\ raised' = Append(raised, [err |-> e, slug |-> slug, key |-> key,
                                     at |-> Len(log')])
        /\ IF h = {}
           THEN /\ pc' = "error"
                /\ err' = e
                /\ stack' = stack
           ELSE LET k == CHOOSE k \in h : \A m \in h : m <= k
                IN  /\ stack' = [SubSeq(stack, 1, k) EXCEPT
                                    ![k] = Returned(stack[k], FALSE)]
                    /\ UNCHANGED <<pc, err>>

\* step.accept(visitor, state, user_params) of a leaf step n called by frame
\* f: the resolution error, or every Evaluation the visitor method may
\* return and the error it may raise; called says whether the visitor was
Outcome(kind, called, ce, st, step, e, slug, key) ==
    [kind |-> kind, called |-> called, ce |-> ce, st |-> st, step |-> step,
     err |-> e, slug |-> slug, key |-> key]
LeafOutcomes(n, f) ==
    LET step == tree[n]
    IN  IF ~AcceptCallsVisitor(step.cls)
        THEN {Outcome("return", FALSE, FALSE, state, NoStep, "none", "", "")}
        ELSE LET r == PrepareArgs(step, state, ParamsFor(f, n))
             IN  IF ~r.ok
                 THEN {Outcome("raise", FALSE, FALSE, state, NoStep, r.err, r.slug, r.key)}
                 ELSE LET rs == [fields |-> r.fields, args |-> r.args]
                      IN  {Outcome("return", TRUE, ce, s2, rs, "none", "", "") :
                              ce \in ChainEffects(step.cls, state, step.slug),
                              s2 \in VisitorStates(step.cls, state, step.slug)}
                          \cup
                          {Outcome("raise", TRUE, FALSE, state, rs, "VisitorError",
                                   step.slug, "") : x \in {x \in VisitorRaises : x}}

(***************************************************************************)
(* Pipelines and user-parameter documents of the model.                    *)
(***************************************************************************)
\* Pipeline.__init__: root = Group(slug="main") when no root is given
DefaultRoot == <<GroupStep("main", <<>>, 0, <<>>)>>

GatedGroup ==
    <<GroupStep("main", <<2, 3>>, 4, <<5, 6>>),
      LeafStep("Balance", ""), LeafStep("BorrowLimit", ""), LeafStep("Expr", ""),
      LeafStep("Transform", ""), LeafStep("Transform", "")>>

LoopInGroup ==
    <<GroupStep("", <<>>, 0, <<2, 7>>),
      RepeatStep("main_loop", <<3>>, 4, <<5, 6>>, ParamMax(IntVal(MaxRepeat))),
      LeafStep("Balance", ""), LeafStep("Expr", "gate"),
      LeafStep("Transform", ""), LeafStep("HarvestLQTY", ""),
      LeafStep("Transform", "")>>

Nested ==
    <<GroupStep("", <<>>, 0, <<2>>),
      GroupStep("", <<>>, 5, <<3>>),
      RepeatStep("", <<>>, 0, <<4>>, LitMax(MaxRepeat)),
      LeafStep("Transform", "transform_1"), LeafStep("Expr", "")>>

GroupInLoop ==
    <<RepeatStep("loop", <<>>, 0, <<2>>, LitMax(MaxRepeat)),
      GroupStep("", <<>>, 3, <<4>>),
      LeafStep("Expr", ""), LeafStep("LQTYAccrued", "")>>

EmptyLoop ==
    <<RepeatStep("", <<>>, 2, <<>>, ParamMax(IntVal(DefaultMax))),
      LeafStep("Expr", "")>>

DuplicateSlugs ==
    <<GroupStep("main", <<>>, 0, <<2, 3>>),
      LeafStep("Transform", "a"), LeafStep("Transform", "a")>>

SingleStep == <<LeafStep("Transform", "")>>

\* a step with a required Param that has no default, an Allowance, and a
\* Transform whose args hold a Param, a Ref and a literal
ParamSteps ==
    <<GroupStep("main", <<>>, 0, <<2, 3, 4>>),
      LeafStep("DepositLUSD", ""),
      LeafStep("Allowance", ""),
      ArgsStep("Transform", "", <<Param("int", "n", TRUE, NoneVal),
                                  Ref("deposit_lusd", TRUE, NoneVal),
                                  Lit(StrVal("x"))>>)>>

\* a step with two required Params that have no default
TwoParams == <<GroupStep("main", <<>>, 0, <<2>>), LeafStep("Redeem", "")>>

\* fields set to a Ref (as in pipeline_defs): a key the guard stored, a key
\* no step stores with and without a default
RefSteps ==
    <<GroupStep("main", <<2>>, 0, <<3, 4, 5>>),
      FieldStep("Balance", "", <<Lit(IntVal(2))>>),
      FieldStep("DepositLUSD", "", <<Ref("balance", TRUE, NoneVal)>>),
      FieldStep("DepositLUSD", "", <<Ref("lusd_in_pool", FALSE, IntVal(2))>>),
      FieldStep("DepositLUSD", "", <<Ref("lusd_in_pool", TRUE, NoneVal)>>)>>

\* fields set to literals, and to a value that is neither literal, Param nor Ref
LiteralSteps ==
    <<GroupStep("main", <<>>, 0, <<2, 3>>),
      FieldStep("DepositLUSD", "", <<Lit(StrVal("2"))>>),
      FieldStep("DepositLUSD", "", <<Other>>)>>
BadLiteral ==
    <<GroupStep("main", <<>>, 0, <<2>>),
      FieldStep("DepositLUSD", "", <<Lit(StrVal("abc"))>>)>>

\* a step of a loop whose Ref names the key the step itself writes
RefInLoop ==
    <<GroupStep("main", <<>>, 0, <<2>>),
      RepeatStep("", <<>>, 0, <<3>>, LitMax(2)),
      FieldStep("DepositLUSD", "", <<Ref("deposit_lusd", FALSE, IntVal(7))>>)>>

\* a Param that is not required and has a default
OptionalParam ==
    <<GroupStep("main", <<>>, 0, <<2>>),
      ArgsStep("Transform", "", <<Param("int", "n", FALSE, IntVal(2))>>)>>

\* steps that cannot be resolved, as children of a gated Group and of a loop
LazyErrors ==
    <<GroupStep("main", <<>>, 0, <<2, 7>>),
      GroupStep("", <<>>, 3, <<4, 5, 6>>),
      LeafStep("Expr", ""),
      FieldStep("DepositLUSD", "", <<Other>>),
      FieldStep("DepositLUSD", "", <<Lit(StrVal("abc"))>>),
      FieldStep("DepositLUSD", "", <<Ref("lusd_in_pool", TRUE, NoneVal)>>),
      RepeatStep("", <<>>, 0, <<8>>, ParamMax(IntVal(MaxRepeat))),
      LeafStep("Redeem", "")>>

\* a pipeline invoked several times: guard, entry condition, a loop and a
\* step with a required Param that has no default
\* a Param that is not required and a required one, both with a default
DefaultedParams ==
    <<GroupStep("main", <<>>, 0, <<2, 3>>),
      ArgsStep("Transform", "", <<Param("int", "n", FALSE, IntVal(2))>>),
      FieldStep("Balance", "", <<Param("str", "token", TRUE, StrVal("ETH"))>>)>>
\* two gated Groups one after the other
TwoGates ==
    <<GroupStep("main", <<>>, 0, <<2, 5>>),
      GroupStep("first", <<>>, 3, <<4>>),
      LeafStep("Expr", ""),
      LeafStep("Transform", ""),
      GroupStep("second", <<>>, 6, <<7>>),
      LeafStep("Expr", ""),
      LeafStep("HarvestLQTY", "")>>
RunTree ==
    <<GroupStep("main", <<2>>, 3, <<4, 6>>),
      LeafStep("Balance", ""), LeafStep("Expr", ""),
      RepeatStep("", <<>>, 0, <<5>>, LitMax(2)),
      LeafStep("Transform", ""), LeafStep("DepositLUSD", "")>>
RunPipelines == {RunTree}

Pipelines ==
    {DefaultRoot, GatedGroup, LoopInGroup, Nested, GroupInLoop, EmptyLoop,
     DuplicateSlugs, SingleStep, ParamSteps, TwoParams, RefSteps, LiteralSteps,
     BadLiteral, RefInLoop, OptionalParam, LazyErrors,
     DefaultedParams, TwoGates}

\* the tree of the construction specification; its slugs are drawn in InitConstruct
SlugShape ==
    <<GroupStep("", <<2>>, 3, <<5, 4, 8>>),
      LeafStep("Balance", ""), LeafStep("Expr", ""), LeafStep("Transform", ""),
      RepeatStep("", <<>>, 0, <<6, 7>>, ParamMax(IntVal(DefaultMax))),
      LeafStep("Transform", ""), LeafStep("Transform", ""),
      LeafStep("HarvestLQTY", "")>>

\* the slugs an author writes
AuthorSlugs == {"transform", "transform_1", "transform_2", "harvest_lqty", "main"}

SlugPipelines ==
    {[n \in DOMAIN SlugShape |->
         [SlugShape[n] EXCEPT !.slug = IF n \in DOMAIN a THEN a[n] ELSE ""]]
     : a \in UNION {[S -> AuthorSlugs] :
                      S \in {S \in SUBSET DOMAIN SlugShape : Cardinality(S) <= MaxExplicit}}}

\* Step.walk / Group.walk with the paths: the sequence of <<path, step>>
RECURSIVE WalkPathsSeq(_, _, _, _)
RECURSIVE WalkPaths(_, _, _)
WalkPathsSeq(t, ids, k, p) ==
    IF k > Len(ids) THEN <<>>
    ELSE WalkPaths(t, ids[k], p) \o WalkPathsSeq(t, ids, k + 1, p)
WalkPaths(t, n, path) ==
    LET p == Append(path, t[n].slug)
    IN  <<[path |-> p, step |-> n]>>
          \o WalkPathsSeq(t, t[n].given, 1, p)
          \o (IF t[n].entry_condition # 0
              THEN WalkPaths(t, t[n].entry_condition, p) ELSE <<>>)
          \o WalkPathsSeq(t, t[n].steps, 1, p)

\* Step.params (lines 178-185) and Transform.params (line 257): the Params
\* among the values of the fields, for a Transform among its args
StepParams(step) ==
    IF IsTransform(step.cls)
    THEN {step.args[i] : i \in {i \in DOMAIN step.args : step.args[i].tag = "param"}}
    ELSE {step.fields[k] : k \in {k \in DOMAIN step.fields : step.fields[k].tag = "param"}}
         \cup (IF step.max.tag = "param" THEN {step.max} ELSE {})

\* Pipeline.params: the declared Params by slug path
params(t, r) ==
    LET w == WalkPaths(t, r, <<>>)
        decl == UNION {{[path |-> Append(w[i].path, q.key), param |-> q] :
                           q \in StepParams(t[w[i].step])} : i \in DOMAIN w}
    IN  [q \in {x.path : x \in decl} |-> (CHOOSE x \in decl : x.path = q).param]

\* Param.initial (params.py, line 27)
Initial(p) ==
    IF p.required
    THEN (IF Falsy(p.default) THEN ZeroOf(p.type) ELSE p.default)
    ELSE NoneVal

\* Pipeline.initial_params_json: a Decimal is exported as its digits
\* (to_eng_string), the other scalars as they are
initial_params_json(t, r) ==
    LET sch == params(t, r)
    IN  [q \in DOMAIN sch |->
            LET initial == Initial(sch[q])
            IN  IF initial.t = "dec" THEN StrVal(initial.v) ELSE initial]

\* the values a user may give for a Repeat's max; "absent" leaves the key out
MaxChoices ==
    {[t |-> "absent"], NoneVal} \cup {IntVal(v) : v \in (0 - 1) .. MaxRepeat}

\* the values a user may give for another Param: JSON null, strings, a number
ParamChoices == {NoneVal, StrVal(""), StrVal("abc"), StrVal("2"), IntVal(2)}

\* the places of a document that bear the key of a Ref of the step there
RefPaths(t, r) ==
    LET w == WalkPaths(t, r, <<>>)
        refs(step) == {step.fields[k] : k \in {k \in DOMAIN step.fields :
                                                  step.fields[k].tag = "ref"}}
                      \cup {step.args[i] : i \in {i \in DOMAIN step.args :
                                                   step.args[i].tag = "ref"}}
    IN  UNION {{Append(w[i].path, q.key) : q \in refs(t[w[i].step])} : i \in DOMAIN w}

\* the user-parameter documents passed to Pipeline.__call__: any value for
\* the max of each Repeat, values for up to MaxSupplied other keys (of the
\* other Params, and of the Refs), and the document that initial_params_json
\* exports
\* the document of a form sent with every Param of the schema left empty
EmptyForm(t, n) ==
    LET sch == params(t, n)
    IN  [q \in {q \in DOMAIN sch : q[Len(q)] # "max"} |-> StrVal("")]
UserDocs ==
    LET sch == params(tree, root)
        M == {q \in DOMAIN sch : q[Len(q)] = "max"}
        L == (DOMAIN sch \ M) \cup RefPaths(tree, root)
    IN  {[q \in {q \in M : a[q].t # "absent"} \cup DOMAIN b |->
             IF q \in DOMAIN b THEN b[q] ELSE a[q]]
         : a \in [M -> MaxChoices],
           b \in UNION {[S -> ParamChoices] :
                          S \in {S \in SUBSET L : Cardinality(S) <= MaxSupplied}}}
        \cup {initial_params_json(tree, root), EmptyForm(tree, root)}

(***************************************************************************)
(* Actions.                                                                *)
(***************************************************************************)
Init ==
    /\ pc = "new"
    /\ tree \in Pipelines
    /\ root = 1
    /\ author = [n \in DOMAIN tree |-> tree[n].slug]
    /\ stack = <<>>
    /\ state = EmptyState
    /\ log = <<>>
    /\ invs = 0
    /\ err = "none"
    /\ result = EmptyState
    /\ sid = 0
    /\ raised = <<>>
    /\ visitor = FreeVisitor
    /\ runs = <<>>

\* a Pipeline that is invoked more than once, with a deterministic executor
InitRuns ==
    /\ pc = "new"
    /\ tree \in RunPipelines
    /\ root = 1
    /\ author = [n \in DOMAIN tree |-> tree[n].slug]
    /\ stack = <<>>
    /\ state = EmptyState
    /\ log = <<>>
    /\ invs = 0
    /\ err = "none"
    /\ result = EmptyState
    /\ sid = 0
    /\ raised = <<>>
    /\ visitor \in DetVisitors
    /\ runs = <<>>

InitConstruct ==
    /\ pc = "new"
    /\ tree \in SlugPipelines
    /\ root = 1
    /\ author = [n \in DOMAIN tree |-> tree[n].slug]
    /\ stack = <<>>
    /\ state = EmptyState
    /\ log = <<>>
    /\ invs = 0
    /\ err = "none"
    /\ result = EmptyState
    /\ sid = 0
    /\ raised = <<>>
    /\ visitor = FreeVisitor
    /\ runs = <<>>

\* Pipeline.__init__
Construct ==
    /\ pc = "new"
    /\ LET r == init_slugs(tree, root)
       IN  /\ tree' = r.tree
           /\ pc' = IF r.ok THEN "ready" ELSE "failed"
           /\ err' = IF r.ok THEN "none" ELSE "RuntimeError"
    /\ UNCHANGED <<root, author, stack, state, log, invs, result,
                   sid, raised, visitor, runs>>

\* a state that outlives the invocation
KeptState(previous) == previous

\* line 154: state={}
InitialState(previous) == EmptyState

Pending == [pc |-> "running", err |-> "none", raised |-> <<>>, result |-> EmptyState]
\* how the invocation ended: the state returned or the error raised
Ended == [pc |-> pc, err |-> err, raised |-> raised, result |-> result]

\* Pipeline.__call__ up to the call of root.accept
Invoke ==
    /\ pc = "ready"
    /\ \E user_params \in UserDocs :
          /\ stack' = <<CallFrame(user_params)>>
          /\ runs' = <<[doc |-> user_params, out |-> Pending]>>
    /\ pc' = "running"
    /\ state' = InitialState(state)
    /\ sid' = 0
    /\ UNCHANGED <<tree, root, author, log, invs, err, result, raised, visitor>>

\* Pipeline.__call__ on a Pipeline that was invoked before
Reinvoke ==
    /\ pc \in {"done", "error"}
    /\ Len(runs) < MaxRuns
    /\ \E user_params \in UserDocs :
          /\ stack' = <<CallFrame(user_params)>>
          /\ runs' = Append([runs EXCEPT ![Len(runs)].out = Ended],
                            [doc |-> user_params, out |-> Pending])
    /\ pc' = "running"
    /\ state' = InitialState(state)
    /\ sid' = 0
    /\ log' = <<>>
    /\ invs' = 0
    /\ err' = "none"
    /\ result' = EmptyState
    /\ raised' = <<>>
    /\ UNCHANGED <<tree, root, author, visitor>>

SetTop(f) == [stack EXCEPT ![Len(stack)] = f]

\* the log and the working state after accept() of leaf n ended as o
LeafCalled(n, role, f, idx, o) ==
    /\ tree' = ReplaceSelf(tree, n, o.step)
    /\ log' = IF o.called THEN Append(log, LeafEntry(n, role, f, idx, o)) ELSE log
    /\ state' = o.st
    /\ sid' = IF o.called /\ o.kind = "return"
              THEN CallIds(VisitorMethod(tree[n].cls)).rid ELSE sid

\* Group._eval_condition, one pass of the loop over self.given (lines 317-324)
GuardStep ==
    /\ Running
    /\ Top.phase = "given"
    /\ LET f == Top
           n == GivenOf(f)[f.g]
       IN  \E o \in LeafOutcomes(n, f) :
              /\ LeafCalled(n, "given", f, f.g, o)
              /\ IF o.kind = "raise"
                 THEN Raise(o.err, o.slug, o.key)
                 ELSE IF GuardRaises(o.ce)
                 THEN Raise("InvalidChainEffectError", tree[n].slug,
                            tree[f.node].slug \o ".given")
                 ELSE /\ stack' = SetTop(Settle([f EXCEPT !.g = f.g + 1]))
                      /\ UNCHANGED <<pc, err, raised>>
    /\ UNCHANGED <<root, author, invs, result, visitor, runs>>

\* Group._eval_condition, the entry condition (lines 325-334)
EntryConditionStep ==
    /\ Running
    /\ Top.phase = "cond"
    /\ LET f == Top
           n == EntryConditionOf(f)
       IN  \E o \in LeafOutcomes(n, f) :
              /\ LeafCalled(n, "entry_condition", f, 1, o)
              /\ IF o.kind = "raise"
                 THEN Raise(o.err, o.slug, o.key)
                 ELSE IF GuardRaises(o.ce)
                 THEN Raise("InvalidChainEffectError", tree[n].slug,
                            tree[f.node].slug \o ".entry_condition")
                 ELSE /\ stack' = SetTop(Settle([f EXCEPT !.cond = ConditionOf(o.st),
                                                          !.phase = "steps", !.j = 1]))
                      /\ UNCHANGED <<pc, err, raised>>
    /\ UNCHANGED <<root, author, invs, result, visitor, runs>>

\* a child (or the root) that is a leaf step: accept calls its visitor method
ChildLeafStep ==
    /\ Running
    /\ Top.phase = "steps"
    /\ LET f == Top
           n == StepsOf(f)[f.j]
       IN  /\ ~IsComposite(tree, n)
           /\ \E o \in LeafOutcomes(n, f) :
                 /\ LeafCalled(n, "step", f, f.j, o)
                 /\ IF o.kind = "raise"
                    THEN Raise(o.err, o.slug, o.key)
                    ELSE /\ stack' = SetTop(Returned(f, o.ce))
                         /\ UNCHANGED <<pc, err, raised>>
    /\ UNCHANGED <<root, author, invs, result, visitor, runs>>

\* Group.accept up to the first call of _eval_condition (lines 339-340)
EnterGroup ==
    /\ Running
    /\ Top.phase = "steps"
    /\ LET f == Top
           n == StepsOf(f)[f.j]
           e == HookEntry("enter_group", "enter", f, invs + 1, n, 0, 0, FALSE, state,
                          ParamsFor(f, n))
       IN  /\ tree[n].cls = "Group"
           /\ log' = Append(log, e)
           /\ sid' = e.rid
           /\ stack' = Append(stack, GroupFrame(n, invs + 1, ParamsFor(f, n)))
    /\ invs' = invs + 1
    /\ UNCHANGED <<pc, tree, root, author, state, err, result, raised, visitor, runs>>

\* Repeat.accept up to the first call of _eval_condition (lines 381-386)
EnterRepeat ==
    /\ Running
    /\ Top.phase = "steps"
    /\ LET f == Top
           n == StepsOf(f)[f.j]
           m == ResolveMax(tree[n].max, ParamsFor(f, n))
           e == HookEntry("enter_repeat", "enter", f, invs + 1, n, m.v, 0, FALSE, state,
                          ParamsFor(f, n))
       IN  /\ tree[n].cls = "Repeat"
           /\ IF m.ok
              THEN /\ log' = Append(log, e)
                   /\ sid' = e.rid
                   /\ stack' = Append(stack,
                                      RepeatFrame(n, invs + 1, ParamsFor(f, n), m.v))
                   /\ invs' = invs + 1
                   /\ UNCHANGED <<pc, err, raised>>
              ELSE /\ UNCHANGED <<log, invs, sid>>
                   /\ Raise(m.err, tree[n].slug, tree[n].max.key)
    /\ UNCHANGED <<tree, root, author, state, result, visitor, runs>>

\* the stack after the innermost accept() returned Evaluation(state, chain_effect)
PopReturn(chain_effect) ==
    LET k == Len(stack) - 1
    IN  [SubSeq(stack, 1, k) EXCEPT ![k] = Returned(stack[k], chain_effect)]

\* Group.accept, lines 351-352
ExitGroup ==
    /\ Running
    /\ Top.phase = "exit"
    /\ Top.kind = "Group"
    /\ LET f == Top
           caller == stack[Len(stack) - 1]
           e == HookEntry("exit_group", "exit", caller, f.inv, f.node, 0, 0, f.any,
                          state, f.up)
       IN  /\ log' = Append(log, e)
           /\ sid' = e.rid
           /\ stack' = PopReturn(f.any)
    /\ UNCHANGED <<pc, tree, root, author, state, invs, err, result,
                   raised, visitor, runs>>

\* Repeat.accept, lines 402-407
ExitRepeat ==
    /\ Running
    /\ Top.phase = "exit"
    /\ Top.kind = "Repeat"
    /\ LET f == Top
           caller == stack[Len(stack) - 1]
           warn == IF CapReached(f.c, f.max)
                   THEN <<HookEntry("warn", "warn", caller, f.inv, f.node,
                                    f.max, f.c, f.any, state, f.up)>>
                   ELSE <<>>
           e == HookEntry("exit_repeat", "exit", caller, f.inv, f.node,
                          f.max, f.c, f.any, state, f.up)
       IN  /\ log' = log \o warn \o <<e>>
           /\ sid' = e.rid
           /\ stack' = PopReturn(f.any)
    /\ UNCHANGED <<pc, tree, root, author, state, invs, err, result,
                   raised, visitor, runs>>

\* Pipeline.__call__: root.accept(...).state is returned
Return ==
    /\ Running
    /\ Top.phase = "exit"
    /\ Top.kind = "Call"
    /\ pc' = "done"
    /\ result' = state
    /\ stack' = <<>>
    /\ UNCHANGED <<tree, root, author, state, log, invs, err, sid,
                   raised, visitor, runs>>

Next ==
    \/ Construct
    \/ Invoke
    \/ GuardStep
    \/ EntryConditionStep
    \/ ChildLeafStep
    \/ EnterGroup
    \/ EnterRepeat
    \/ ExitGroup
    \/ ExitRepeat
    \/ Return

\* construction alone, over trees with every mix of written and omitted slugs
SpecConstruct == InitConstruct /\ [][Construct]_vars

Spec == Init /\ [][Next]_vars

NextRuns ==
    \/ Construct
    \/ Invoke
    \/ Reinvoke
    \/ GuardStep
    \/ EntryConditionStep
    \/ ChildLeafStep
    \/ EnterGroup
    \/ EnterRepeat
    \/ ExitGroup
    \/ ExitRepeat
    \/ Return

\* several invocations of one Pipeline with one deterministic executor
SpecRuns == InitRuns /\ [][NextRuns]_vars

(***************************************************************************)
(* Reading the log.                                                        *)
(***************************************************************************)
Calls == DOMAIN log

\* the activations (of Group.accept / Repeat.accept) entered so far
Activations == {log[i].inv : i \in {i \in Calls : log[i].role = "enter"}}
EnterOf(r) == log[CHOOSE i \in Calls : log[i].role = "enter" /\ log[i].inv = r]
HasExit(r) == \E i \in Calls : log[i].role = "exit" /\ log[i].inv = r
ExitOf(r) == log[CHOOSE i \in Calls : log[i].role = "exit" /\ log[i].inv = r]
IsRepeatAct(r) == EnterOf(r).op = "enter_repeat"
IsGroupAct(r) == EnterOf(r).op = "enter_group"
NodeOf(r) == tree[EnterOf(r).node]

\* the calls in which activation r began accept() of its child j in iteration c
ChildStarts(r, c, j) ==
    {i \in Calls : /\ log[i].caller = r /\ log[i].c = c /\ log[i].idx = j
                   /\ log[i].role \in {"step", "enter"}}
\* the calls that ended an accept() of a child of r: they carry its chain_effect
ChildReturns(r) ==
    {i \in Calls : /\ log[i].caller = r /\ log[i].role \in {"step", "exit"}
                   /\ ~log[i].raised}
GuardCalls(r, c, g) ==
    {i \in Calls : /\ log[i].caller = r /\ log[i].c = c /\ log[i].idx = g
                   /\ log[i].role = "given"}
ConditionCalls(r, c) ==
    {i \in Calls : /\ log[i].caller = r /\ log[i].c = c
                   /\ log[i].role = "entry_condition"}

\* the iterations (for a Group: iteration 0) in which r began a child
Iterations(r) ==
    {log[i].c : i \in {i \in Calls : log[i].caller = r /\ log[i].role \in {"step", "enter"}}}
\* iteration c of r is complete: its last child has returned
IterationDone(r, c) ==
    \E i \in ChildReturns(r) : log[i].c = c /\ log[i].idx = Len(NodeOf(r).steps)
\* some child of r returned a chain effect in iteration c
IterationEffect(r, c) == \E i \in ChildReturns(r) : log[i].c = c /\ log[i].ce
\* the value a state holds under the reserved key is truthy
Truthy(st) == "_condition_" \in DOMAIN st /\ st["_condition_"] = TRUE
\* every entry condition r has evaluated so far left a truthy value
GateAlwaysTrue(r) ==
    \A i \in Calls : (log[i].caller = r /\ log[i].role = "entry_condition")
                        => Truthy(log[i].sout)

(***************************************************************************)
(* C1.  When a `given` step or the entry condition of a Group or Repeat    *)
(* returns chain_effect true, the invocation ends with                     *)
(* InvalidChainEffectError and that call is the last visitor call: no      *)
(* later guard, no entry condition after the guard, and no child of that   *)
(* pass of the activation is executed (for a Group: no child at all).      *)
(***************************************************************************)
C1_GuardChainEffectAborts ==
    \A i \in Calls :
        (log[i].role \in {"given", "entry_condition"} /\ log[i].ce) =>
            /\ pc = "error"
            /\ err = "InvalidChainEffectError"
            /\ i = Len(log)
            /\ \A j \in Calls :
                  (log[j].caller = log[i].caller /\ log[j].c = log[i].c) =>
                      /\ log[j].role \notin {"step", "enter"}
                      /\ (log[i].role = "given" /\ log[j].role = "given")
                            => log[j].idx <= log[i].idx
                      /\ (log[i].role = "given") => (log[j].role # "entry_condition")

\* the first of two guards of a Group with an entry condition and children raised
C1_Witness ==
    /\ pc = "error"
    /\ log # <<>>
    /\ LET e == log[Len(log)]
       IN  /\ e.role = "given" /\ e.ce /\ e.idx = 1
           /\ IsGroupAct(e.caller)
           /\ Len(NodeOf(e.caller).given) = 2
           /\ NodeOf(e.caller).entry_condition # 0
           /\ NodeOf(e.caller).steps # <<>>

(***************************************************************************)
(* C2.  A Repeat stops after the first iteration without a chain effect:   *)
(* with a gate that is always true and children that report a chain effect *)
(* in exactly the first N iterations (0 <= N < max), the children are      *)
(* executed exactly N+1 times.                                             *)
(***************************************************************************)
C2_StopsAfterFirstQuietIteration ==
    \A r \in Activations :
        (IsRepeatAct(r) /\ HasExit(r) /\ NodeOf(r).steps # <<>> /\ GateAlwaysTrue(r)) =>
            \A N \in 0 .. (EnterOf(r).max - 1) :
                (\A c \in Iterations(r) : IterationEffect(r, c) <=> c < N)
                    => Cardinality(Iterations(r)) = N + 1

(***************************************************************************)
(* C3.  In a Repeat activation with resolved max m >= 0, every guard and   *)
(* the entry condition are evaluated at most m times and every child is    *)
(* executed at most m times, whatever the visitor returns.                 *)
(***************************************************************************)
C3_AtMostMaxIterations ==
    \A r \in Activations :
        (IsRepeatAct(r) /\ EnterOf(r).max >= 0) =>
            LET m == EnterOf(r).max
                n == NodeOf(r)
            IN  /\ \A g \in DOMAIN n.given :
                      Cardinality({i \in Calls : /\ log[i].caller = r
                                                 /\ log[i].role = "given"
                                                 /\ log[i].idx = g}) <= m
                /\ Cardinality({i \in Calls : /\ log[i].caller = r
                                              /\ log[i].role = "entry_condition"}) <= m
                /\ \A j \in DOMAIN n.steps :
                      Cardinality({i \in Calls : /\ log[i].caller = r
                                                 /\ log[i].role \in {"step", "enter"}
                                                 /\ log[i].idx = j}) <= m
                /\ \A i \in Calls : log[i].caller = r => log[i].c < m

\* a Repeat with a guard, an entry condition and two children ran max >= 2 passes
C3_Witness ==
    \E r \in Activations :
        /\ IsRepeatAct(r) /\ HasExit(r)
        /\ EnterOf(r).max >= 2
        /\ NodeOf(r).given # <<>> /\ NodeOf(r).entry_condition # 0
        /\ Len(NodeOf(r).steps) = 2
        /\ Cardinality(GuardCalls(r, EnterOf(r).max - 1, 1)) = 1
        /\ Cardinality(ChildStarts(r, EnterOf(r).max - 1, 2)) = 1

(***************************************************************************)
(* C4.  A Repeat with max m >= 1 whose gate is always true and whose       *)
(* children report a chain effect in every iteration executes its children *)
(* exactly m times; then the cap warning is logged, no error is raised,    *)
(* exit_repeat is called and the Evaluation returned holds the state       *)
(* accumulated over the m iterations, with chain_effect true.              *)
(***************************************************************************)
AlwaysEffective(r) ==
    /\ GateAlwaysTrue(r)
    /\ \A c \in Iterations(r) : IterationDone(r, c) => IterationEffect(r, c)

C4_CapReachedReturnsAccumulated ==
    \A r \in Activations :
        (/\ IsRepeatAct(r) /\ EnterOf(r).max >= 1 /\ NodeOf(r).steps # <<>>
         /\ AlwaysEffective(r)) =>
            LET m == EnterOf(r).max
                n == NodeOf(r)
                last == {i \in ChildReturns(r) :
                            log[i].c = m - 1 /\ log[i].idx = Len(n.steps)}
            IN  /\ (last # {} /\ ~HasExit(r)) =>
                      /\ pc = "running"
                      /\ Top.inv = r /\ Top.phase = "exit"
                /\ HasExit(r) =>
                      /\ Iterations(r) = 0 .. (m - 1)
                      /\ \A c \in 0 .. (m - 1), j \in DOMAIN n.steps :
                            Cardinality(ChildStarts(r, c, j)) = 1
                      /\ \E i \in last :
                            /\ log[i + 1].role = "warn" /\ log[i + 1].inv = r
                            /\ log[i + 2].role = "exit" /\ log[i + 2].inv = r
                            /\ log[i + 2].op = "exit_repeat"
                            /\ log[i + 2].sin = log[i].sout
                      /\ ExitOf(r).ce = TRUE
                      /\ \A j \in DOMAIN n.steps :
                            ~IsComposite(tree, n.steps[j]) =>
                                StateGet(ExitOf(r).sout, tree[n.steps[j]].slug, 0)
                                  = StateGet(EnterOf(r).sin, tree[n.steps[j]].slug, 0) + m

\* a Repeat with guard, entry condition and two children ran to its cap of 3
C4_Witness ==
    \E r \in Activations :
        /\ IsRepeatAct(r) /\ HasExit(r) /\ AlwaysEffective(r)
        /\ EnterOf(r).max = 3
        /\ NodeOf(r).entry_condition # 0
        /\ Len(NodeOf(r).steps) = 2
        /\ Iterations(r) = {0, 1, 2}

(***************************************************************************)
(* C5.  Every pass of a Repeat starts by evaluating all guards and the     *)
(* entry condition on the state returned by the last child of the pass     *)
(* before (by enter_repeat for the first pass); when the condition is      *)
(* false the loop ends and the children of that pass are not executed;     *)
(* when it is false on the first check no child is executed at all and     *)
(* the Repeat returns chain_effect false.                                  *)
(***************************************************************************)
\* call i is the first visitor call of a pass of _eval_condition of r
FirstOfPass(i) ==
    \/ log[i].role = "given" /\ log[i].idx = 1
    \/ log[i].role = "entry_condition" /\ NodeOf(log[i].caller).given = <<>>

C5_RepeatReevaluatesCondition ==
    \A r \in Activations :
        IsRepeatAct(r) =>
            LET n == NodeOf(r)
            IN  /\ \A i \in Calls :
                      (log[i].caller = r /\ log[i].role \in {"given", "entry_condition"}) =>
                          /\ i > 1
                          /\ log[i].sin = log[i - 1].sout
                /\ \A i \in Calls :
                      (log[i].caller = r /\ FirstOfPass(i)) =>
                          /\ (log[i].c = 0) =>
                                (log[i - 1].role = "enter" /\ log[i - 1].inv = r)
                          /\ (log[i].c > 0) =>
                                /\ (i - 1) \in ChildReturns(r)
                                /\ log[i - 1].c = log[i].c - 1
                                /\ log[i - 1].idx = Len(n.steps)
                /\ \A i \in Calls :
                      (log[i].caller = r /\ log[i].role \in {"step", "enter"}) =>
                          /\ \A g \in DOMAIN n.given :
                                \E k \in GuardCalls(r, log[i].c, g) : k < i
                          /\ (n.entry_condition # 0) =>
                                \E k \in ConditionCalls(r, log[i].c) :
                                    k < i /\ Truthy(log[k].sout)
                /\ \A i \in Calls :
                      (/\ log[i].caller = r /\ log[i].role = "entry_condition"
                       /\ ~log[i].ce /\ ~Truthy(log[i].sout)) =>
                          /\ \A k \in Calls : (k > i) => (log[k].caller # r)
                          /\ (i < Len(log)) => (log[i + 1].inv = r
                                                /\ log[i + 1].role \in {"warn", "exit"})
                          /\ (log[i].c = 0 /\ HasExit(r)) =>
                                (Iterations(r) = {} /\ ExitOf(r).ce = FALSE)

\* the condition of a Repeat was false in the second pass, after a pass with effect,
\* and the Repeat returned
C5_Witness ==
    \E r \in Activations :
        /\ IsRepeatAct(r) /\ HasExit(r)
        /\ NodeOf(r).given # <<>>
        /\ Iterations(r) = {0}
        /\ \E i \in ConditionCalls(r, 1) : ~Truthy(log[i].sout) /\ ~log[i].ce
        /\ \E i \in GuardCalls(r, 1, 1) : log[i].sin # log[i - 1].sin

(***************************************************************************)
(* C6.  In a Group activation whose guards report no chain effect the      *)
(* children are executed iff no entry condition is declared or the entry   *)
(* condition left a truthy value under _condition_; with the gate closed   *)
(* no child is called, the keys the children write are in the returned     *)
(* state as they were at entry, and the Group returns chain_effect false.  *)
(***************************************************************************)
RECURSIVE SlugsUnder(_, _)
SlugsUnder(ids, k) ==
    IF k > Len(ids) THEN {}
    ELSE {tree[n].slug : n \in Range(Walk(tree, ids[k]))} \cup SlugsUnder(ids, k + 1)

GateOf(r) ==
    \/ NodeOf(r).entry_condition = 0
    \/ \E i \in ConditionCalls(r, 0) : Truthy(log[i].sout)

C6_GroupGate ==
    \A r \in Activations :
        IsGroupAct(r) =>
            LET n == NodeOf(r)
            IN  /\ \A i \in Calls :
                      (log[i].caller = r /\ log[i].role \in {"step", "enter"}) => GateOf(r)
                /\ HasExit(r) =>
                      /\ GateOf(r) =>
                            \A j \in DOMAIN n.steps :
                                /\ Cardinality(ChildStarts(r, 0, j)) <= 1
                                /\ AcceptCallsVisitor(tree[n.steps[j]].cls)
                                      => ChildStarts(r, 0, j) # {}
                      /\ ~GateOf(r) =>
                            /\ \A i \in Calls :
                                  log[i].caller = r => log[i].role \notin {"step", "enter"}
                            /\ ExitOf(r).ce = FALSE
                            /\ \A k \in SlugsUnder(n.steps, 1) :
                                  /\ k \in DOMAIN ExitOf(r).sout <=> k \in DOMAIN EnterOf(r).sin
                                  /\ StateGet(ExitOf(r).sout, k, 0) = StateGet(EnterOf(r).sin, k, 0)

\* a Group with children returned with its gate closed: the entry condition left
\* nothing, or false, under _condition_
C6_Witness ==
    \E r \in Activations :
        /\ IsGroupAct(r) /\ HasExit(r) /\ ~GateOf(r)
        /\ NodeOf(r).steps # <<>>
        /\ NodeOf(r).given # <<>>
        /\ \E i \in ConditionCalls(r, 0) : "_condition_" \notin DOMAIN log[i].sout

(***************************************************************************)
(* C7.  The chain_effect a Group or Repeat returns is true iff some        *)
(* execution of a direct child in that activation returned chain_effect    *)
(* true; so a chain effect of a leaf is returned by every enclosing        *)
(* Group / Repeat up to the root.                                          *)
(***************************************************************************)
RECURSIVE Enclosing(_)
Enclosing(r) == IF r = 0 THEN {} ELSE {r} \cup Enclosing(EnterOf(r).caller)

C7_ChainEffectIsOrOfChildren ==
    /\ \A r \in Activations :
          HasExit(r) => (ExitOf(r).ce <=> \E i \in ChildReturns(r) : log[i].ce)
    /\ \A i \in Calls :
          (log[i].role = "step" /\ log[i].ce) =>
              \A r \in Enclosing(log[i].caller) : HasExit(r) => ExitOf(r).ce

\* a chain effect of a leaf in the first pass of a Repeat, two Groups below the root,
\* reached the root although the last pass had none
C7_Witness ==
    /\ pc = "done"
    /\ \E i \in Calls :
          /\ log[i].role = "step" /\ log[i].ce
          /\ Cardinality(Enclosing(log[i].caller)) = 3
          /\ \A r \in Enclosing(log[i].caller) : ExitOf(r).ce
          /\ \E k \in Calls : k > i /\ log[k].caller = log[i].caller /\ ~log[k].ce

(***************************************************************************)
(* Reading a constructed tree.                                             *)
(***************************************************************************)
Constructed == pc \in {"ready", "failed"}
WalkOrder == Walk(tree, root)
\* the slugs held by the steps visited before position k of the walk
TakenBefore(k) == {tree[WalkOrder[h]].slug : h \in 1 .. (k - 1)} \ {""}

(***************************************************************************)
(* C8.  After a successful construction every step reached by walk has a   *)
(* non-empty slug and no two steps of the tree have the same slug.         *)
(***************************************************************************)
C8_SlugsUniqueNonEmpty ==
    pc = "ready" =>
        /\ Range(WalkOrder) = DOMAIN tree
        /\ \A n \in DOMAIN tree : tree[n].slug # ""
        /\ \A n, n2 \in DOMAIN tree : (n # n2) => (tree[n].slug # tree[n2].slug)

\* written and generated slugs mixed: a written transform_1 made a later step transform_2
C8_Witness ==
    /\ pc = "ready"
    /\ \E n, n2 \in DOMAIN tree :
          /\ author[n] = "transform_1"
          /\ author[n2] = "" /\ tree[n2].slug = "transform_2"
    /\ \E n \in DOMAIN tree : author[n] = "" /\ tree[n].slug = "transform"

(***************************************************************************)
(* C9.  Construction fails with the duplicate-slug error exactly when a    *)
(* step with a written slug is visited, in walk order, after a step that   *)
(* already holds that slug; a written slug is never changed.               *)
(***************************************************************************)
C9_DuplicateSlugFails ==
    Constructed =>
        /\ (pc = "failed") <=>
              \E k \in DOMAIN WalkOrder :
                  /\ author[WalkOrder[k]] # ""
                  /\ author[WalkOrder[k]] \in TakenBefore(k)
        /\ (pc = "failed") => (err = "RuntimeError")
        /\ \A n \in DOMAIN tree : (author[n] # "") => (tree[n].slug = author[n])

\* a written slug met the slug generated for a step visited before it
C9_Witness ==
    /\ pc = "failed"
    /\ \E k \in DOMAIN WalkOrder :
          /\ author[WalkOrder[k]] = "transform"
          /\ \E h \in 1 .. (k - 1) :
                author[WalkOrder[h]] = "" /\ tree[WalkOrder[h]].slug = "transform"

(***************************************************************************)
(* C10.  A step without a written slug gets the snake_case form of its     *)
(* class name when no step visited before holds it, and otherwise          *)
(* <base>_<i> for the least i >= 1 not held; so, when no written slug      *)
(* collides, the unslugged steps of one class get base, base_1, base_2 ... *)
(* in walk order.                                                          *)
(***************************************************************************)
SnakeCase(cls) ==
    CASE cls = "Transform"   -> "transform"
      [] cls = "Expr"        -> "expr"
      [] cls = "Group"       -> "group"
      [] cls = "Repeat"      -> "repeat"
      [] cls = "Balance"     -> "balance"
      [] cls = "BorrowLimit" -> "borrow_limit"
      [] cls = "HarvestLQTY" -> "harvest_lqty"
      [] cls = "LQTYAccrued" -> "lqty_accrued"
      [] cls = "Allowance"   -> "allowance"
      [] cls = "DepositLUSD" -> "deposit_lusd"
      [] cls = "Redeem"      -> "redeem"

Suffixed(base, i) == IF i = 0 THEN base ELSE base \o "_" \o ToString(i)

\* the unslugged steps of the class of WalkOrder[k] visited before position k
SameKindBefore(k) ==
    {h \in 1 .. (k - 1) : /\ author[WalkOrder[h]] = ""
                          /\ tree[WalkOrder[h]].cls = tree[WalkOrder[k]].cls}

C10_GeneratedSlug ==
    Constructed =>
        \A k \in DOMAIN WalkOrder :
            LET n == WalkOrder[k]
                base == SnakeCase(tree[n].cls)
                N == Len(WalkOrder)
            IN  (author[n] = "" /\ tree[n].slug # "") =>
                    /\ \E i \in 0 .. N :
                          /\ tree[n].slug = Suffixed(base, i)
                          /\ \A i2 \in 0 .. (i - 1) : Suffixed(base, i2) \in TakenBefore(k)
                          /\ Suffixed(base, i) \notin TakenBefore(k)
                    /\ (\A n2 \in DOMAIN tree, i \in 0 .. N : author[n2] # Suffixed(base, i))
                          => tree[n].slug = Suffixed(base, Cardinality(SameKindBefore(k)))

\* two Transform siblings without slugs got transform and transform_1, and the
\* class HarvestLQTY got harvest_lqty
C10_Witness ==
    /\ pc = "ready"
    /\ \A n \in DOMAIN tree : tree[n].cls = "Transform" => author[n] = ""
    /\ \E n \in DOMAIN tree :
          /\ Len(tree[n].steps) = 2
          /\ tree[tree[n].steps[1]].slug = "transform"
          /\ tree[tree[n].steps[2]].slug = "transform_1"
    /\ \E n \in DOMAIN tree : author[n] = "" /\ tree[n].slug = "harvest_lqty"

(***************************************************************************)
(* Reading the invocation: the document it was given, the slug path of a   *)
(* step, and the elements of a step in the order _prepare_args resolves    *)
(* them (the fields, then for a Transform the args).                       *)
(***************************************************************************)
Doc == runs[Len(runs)].doc
Invoked == runs # <<>>
LeafRoles == {"given", "entry_condition", "step"}
LeafNodes == {n \in DOMAIN tree : ~IsComposite(tree, n)}
PathOf(n) ==
    LET w == WalkPaths(tree, root, <<>>)
    IN  w[CHOOSE i \in DOMAIN w : w[i].step = n].path
\* the part of a document below a slug path
RECURSIVE SubDocAt(_, _)
SubDocAt(doc, path) ==
    IF path = <<>> THEN doc ELSE SubDocAt(SubDoc(doc, Head(path)), Tail(path))
\* the visitor method of step n was called
Called(n) == \E i \in Calls : log[i].node = n /\ log[i].role \in LeafRoles
\* accept() of step n was called: its visitor method was, or it raised
Reached(n) == Called(n) \/ (raised # <<>> /\ raised[1].slug = tree[n].slug)
\* the document holds no value for key k of step n: no entry, null, or ""
NoValue(n, k) ==
    LET q == Append(PathOf(n), k)
    IN  q \notin DOMAIN Doc \/ Doc[q] \in {NoneVal, StrVal("")}
ElementsOf(n) ==
    LET step == tree[n]
        nf == Len(step.fields)
        na == IF IsTransform(step.cls) THEN Len(step.args) ELSE 0
    IN  [k \in 1 .. (nf + na) |->
            IF k <= nf
            THEN [p |-> step.fields[k],
                  name |-> IF step.fields[k].tag \in {"param", "ref"}
                           THEN step.fields[k].key ELSE ""]
            ELSE [p |-> step.args[k - nf],
                  name |-> IF step.args[k - nf].tag \in {"param", "ref"}
                           THEN ArgName(k - nf, step.args[k - nf].key) ELSE ""]]
RequiredNoDefault(p) == p.tag = "param" /\ p.required /\ p.default = NoneVal
\* the elements of step n that are required Params without default and value
Unsupplied(n) ==
    {k \in DOMAIN ElementsOf(n) :
        RequiredNoDefault(ElementsOf(n)[k].p) /\ NoValue(n, ElementsOf(n)[k].p.key)}
\* the error of the invocation is e(slug of n, name)
RaisedFor(n, e, name) ==
    /\ pc = "error" /\ err = e
    /\ Len(raised) = 1
    /\ raised[1].err = e /\ raised[1].slug = tree[n].slug /\ raised[1].key = name

(***************************************************************************)
(* C11 as stated.  Whenever accept() was called on a step that has a       *)
(* required Param without default for whose key the user document holds no *)
(* value, the invocation ended with MissingParamError carrying the step's  *)
(* slug and that Param's key (alone, or inside `args[i], key=<key>`), and  *)
(* the step's visitor method was not called.                               *)
(***************************************************************************)
C11_MissingParamOfEveryParam ==
    Invoked =>
        \A n \in LeafNodes : \A k \in Unsupplied(n) :
            Reached(n) =>
                /\ ~Called(n)
                /\ \/ RaisedFor(n, "MissingParamError", ElementsOf(n)[k].p.key)
                   \/ RaisedFor(n, "MissingParamError", ElementsOf(n)[k].name)

\* element k of step n resolves against the current state and the document
ElementResolves(n, k) ==
    LET step == tree[n]
        nf == Len(step.fields)
        up == SubDocAt(Doc, PathOf(n))
    IN  IF k <= nf
        THEN ResolveField(FormalParams(step.cls)[k], step.fields[k], state, up, step.slug).ok
        ELSE ResolveArg(step.args[k - nf], k - nf, state, up, step.slug).ok

(***************************************************************************)
(* C11, amended.  Whenever accept() was called on a step that has a        *)
(* required Param without default for whose key the user document holds no *)
(* value, the invocation ended with an error carrying the step's slug and  *)
(* the visitor method was not called; when every element resolved before   *)
(* the Param (fields in declaration order, then a Transform's args)        *)
(* resolves, the error is MissingParamError and carries the Param's key    *)
(* for a field and `args[i], key=<key>` for element i of a Transform's     *)
(* args.                                                                   *)
(***************************************************************************)
C11_MissingParamOfFirstParam ==
    Invoked =>
        \A n \in LeafNodes : \A k \in Unsupplied(n) :
            Reached(n) =>
                /\ ~Called(n)
                /\ pc = "error" /\ Len(raised) = 1
                /\ raised[1].slug = tree[n].slug
                /\ (\A m \in 1 .. (k - 1) : ElementResolves(n, m))
                      => RaisedFor(n, "MissingParamError", ElementsOf(n)[k].name)

\* the c_token of a Redeem was supplied and its amount was not
C11_Witness ==
    /\ Invoked
    /\ \E n \in LeafNodes :
          /\ tree[n].cls = "Redeem"
          /\ Unsupplied(n) = {2}
          /\ RaisedFor(n, "MissingParamError", "amount")
          /\ ~Called(n)

\* the user sub-document of step n, and the raw value of its Param p
UserParamsOf(n) == SubDocAt(Doc, PathOf(n))
RawOf(n, p) ==
    IF <<p.key>> \in DOMAIN UserParamsOf(n) THEN UserParamsOf(n)[<<p.key>>] ELSE p.default
Present(raw) == raw \notin {NoneVal, StrVal("")}
\* v is an instance of the Param type
HasType(v, type) ==
    IF type \in DecimalTypes THEN v.t = "dec" /\ v.cls = type ELSE v.t = type
\* the entries of the visitor calls made for leaf steps
LeafCalls == {i \in Calls : log[i].role \in LeafRoles}
ParamFields(n) == {k \in DOMAIN tree[n].fields : tree[n].fields[k].tag = "param"}

(***************************************************************************)
(* C12.  For every Param field of a step whose visitor method was called,  *)
(* with raw value the document's value under the step's slug path when the *)
(* key is there and the Param's default otherwise: a present, non-empty    *)
(* raw value reaches the visitor as the Param type's coercion of it, an    *)
(* instance of that type.  A step reached with a present raw value that    *)
(* the type cannot coerce is not called and the invocation fails, with     *)
(* InvalidParamTypeError for the step's slug and the Param's key when the  *)
(* elements before it resolve.                                             *)
(***************************************************************************)
C12_ParamFieldCoerced ==
    Invoked =>
        /\ \A i \in LeafCalls : \A k \in ParamFields(log[i].node) :
              LET p == tree[log[i].node].fields[k]
                  raw == RawOf(log[i].node, p)
              IN  Present(raw) =>
                    /\ HasType(log[i].step.fields[k], p.type)
                    /\ Coerce(p.type, raw).ok
                    /\ log[i].step.fields[k] = Coerce(p.type, raw).v
        /\ \A n \in LeafNodes : \A k \in ParamFields(n) :
              LET p == tree[n].fields[k]
                  raw == RawOf(n, p)
              IN  (Reached(n) /\ AcceptCallsVisitor(tree[n].cls)
                     /\ Present(raw) /\ ~Coerce(p.type, raw).ok) =>
                    /\ ~Called(n)
                    /\ pc = "error"
                    /\ (\A m \in 1 .. (k - 1) : ElementResolves(n, m))
                          => RaisedFor(n, "InvalidParamTypeError", p.key)

\* a str of the document reached the visitor as a Token
C12_Witness ==
    /\ Invoked
    /\ \E i \in LeafCalls : \E k \in ParamFields(log[i].node) :
          LET p == tree[log[i].node].fields[k]
          IN  /\ p.type = "Token"
              /\ RawOf(log[i].node, p) = StrVal("2")
              /\ log[i].step.fields[k] = DecVal("Token", "2")

\* the elements of step n that are a Ref
RefElements(n) == {k \in DOMAIN ElementsOf(n) : ElementsOf(n)[k].p.tag = "ref"}
\* element k of the resolved step an entry holds
ResolvedElement(e, k) ==
    IF k <= Len(e.step.fields) THEN e.step.fields[k]
    ELSE e.step.args[k - Len(e.step.fields)]
\* the value a state holds under a key, None when it holds none
Stored(st, key) == IF key \in DOMAIN st THEN StateVal(st, key) ELSE NoneVal

(***************************************************************************)
(* C13.  For every Ref element of a step whose visitor method was called,  *)
(* the resolved element is the value the state held under the Ref's key    *)
(* when the step was executed, and the Ref's default when the state held   *)
(* none, whatever the user document is; it is not None when the Ref is     *)
(* required.  A step reached with a required Ref whose key the state does  *)
(* not hold and that has no default is not called, and the invocation      *)
(* ends with InvalidReferenceError for the step's slug and the Ref's key   *)
(* when the elements before it resolve; a step whose Ref finds its key in  *)
(* the state does not fail with InvalidReferenceError for that key.        *)
(***************************************************************************)
C13_RefReadsState ==
    Invoked =>
        /\ \A i \in LeafCalls : \A k \in RefElements(log[i].node) :
              LET p == ElementsOf(log[i].node)[k].p
                  v == ResolvedElement(log[i], k)
              IN  /\ p.key \in DOMAIN log[i].sin => v = Stored(log[i].sin, p.key)
                  /\ p.key \notin DOMAIN log[i].sin => v = p.default
                  /\ p.required => v # NoneVal
        /\ \A n \in LeafNodes : \A k \in RefElements(n) :
              LET p == ElementsOf(n)[k].p
              IN  /\ (Reached(n) /\ ~Called(n) /\ p.required /\ p.default = NoneVal
                        /\ p.key \notin DOMAIN state) =>
                        /\ pc = "error"
                        /\ (\A m \in 1 .. (k - 1) : ElementResolves(n, m))
                              => RaisedFor(n, "InvalidReferenceError", p.key)
                  /\ (Reached(n) /\ p.key \in DOMAIN state) =>
                        ~RaisedFor(n, "InvalidReferenceError", p.key)

\* a step received the value a guard stored, and the invocation ended on a
\* required Ref whose key no step stores
C13_Witness ==
    /\ Invoked
    /\ \E i \in LeafCalls : \E k \in RefElements(log[i].node) :
          /\ ElementsOf(log[i].node)[k].p.key \in DOMAIN log[i].sin
          /\ ResolvedElement(log[i], k) = IntVal(1)
    /\ \E n \in LeafNodes : \E k \in RefElements(n) :
          RaisedFor(n, "InvalidReferenceError", ElementsOf(n)[k].p.key)

(***************************************************************************)
(* C14.  Every accept() of a concrete step that completed made one call of *)
(* the visitor: a Group that returned with its gate open holds, for each   *)
(* of its children, exactly one call that began the child's accept().      *)
(***************************************************************************)
C14_EveryAcceptCallsVisitor ==
    \A r \in Activations :
        (IsGroupAct(r) /\ HasExit(r) /\ GateOf(r)) =>
            \A j \in DOMAIN NodeOf(r).steps : Cardinality(ChildStarts(r, 0, j)) = 1


\* the invocations that ended, the current one included, as document and outcome
EndedRuns ==
    [i \in {i \in DOMAIN runs : i < Len(runs) \/ pc \in {"done", "error"}} |->
        [doc |-> runs[i].doc, out |-> IF i < Len(runs) THEN runs[i].out ELSE Ended]]
\* user_params absent: `if not user_params: user_params = {}`
NoUserParams == << >>

(***************************************************************************)
(* C15.  Of two invocations of a pipeline with the same deterministic      *)
(* visitor, one with the document of initial_params_json as user_params    *)
(* and one with no user_params, both end the same way: with the same final *)
(* state, or with the same error.                                          *)
(***************************************************************************)
C15_InitialDocumentIsNoOp ==
    \A a, b \in DOMAIN EndedRuns :
        (/\ EndedRuns[a].doc = initial_params_json(tree, root)
         /\ EndedRuns[b].doc = NoUserParams) =>
            /\ EndedRuns[a].out.pc = EndedRuns[b].out.pc
            /\ EndedRuns[a].out.err = EndedRuns[b].out.err
            /\ EndedRuns[a].out.result = EndedRuns[b].out.result


\* the path under which params and initial_params_json export key k of step n
ExportPath(n, k) == Append(PathOf(n), k)
\* the entries whose accept() resolved the step's own Params: the calls of
\* leaf methods and the enter hooks
AcceptEntries == {i \in Calls : log[i].role \in LeafRoles \cup {"enter"}}

(***************************************************************************)
(* C16.  For every step whose accept() was called and every Param declared *)
(* on it, the path of the schema and of the initial-values document for    *)
(* the Param's key is the step's slug path followed by the key, and the    *)
(* user_params the step was given hold under the key exactly what the      *)
(* user document holds at that path (and nothing when it holds nothing     *)
(* there): for children, guards, entry conditions and the max of a Repeat. *)
(***************************************************************************)
C16_SchemaPathIsReadPath ==
    Invoked =>
        \A i \in AcceptEntries : \A p \in StepParams(tree[log[i].node]) :
            LET q == ExportPath(log[i].node, p.key)
            IN  /\ q \in DOMAIN params(tree, root)
                /\ params(tree, root)[q] = p
                /\ q \in DOMAIN initial_params_json(tree, root)
                /\ <<p.key>> \in DOMAIN log[i].up <=> q \in DOMAIN Doc
                /\ q \in DOMAIN Doc => log[i].up[<<p.key>>] = Doc[q]

\* a Repeat inside a Group read its max, and a guard read its token, from
\* the user document
C16_Witness ==
    /\ Invoked
    /\ \E i \in AcceptEntries :
          /\ log[i].op = "enter_repeat"
          /\ Len(PathOf(log[i].node)) >= 2
          /\ ExportPath(log[i].node, "max") \in DOMAIN Doc
          /\ log[i].max = Doc[ExportPath(log[i].node, "max")].v
    /\ \E i \in AcceptEntries :
          /\ log[i].role = "given"
          /\ ExportPath(log[i].node, "token") \in DOMAIN Doc
          /\ log[i].step.fields[1] = Doc[ExportPath(log[i].node, "token")]


(***************************************************************************)
(* C17.  Once the resolution of a step or a visitor call has raised, the   *)
(* invocation is over: it ends with that error and returns no state, no    *)
(* visitor method is called after the raise, and nothing is raised a       *)
(* second time; an invocation that returned a state raised nothing.        *)
(***************************************************************************)
C17_ErrorAbortsInvocation ==
    /\ raised # <<>> =>
          /\ pc = "error"
          /\ Len(raised) = 1
          /\ err = raised[1].err
          /\ raised[1].at = Len(log)
          /\ result = EmptyState
    /\ pc = "done" => raised = <<>>
    /\ pc = "error" => raised # <<>>

\* a step inside a nested Group or Repeat raised while a later child of the
\* same activation was still to be executed, after some visitor calls
C17_Witness ==
    /\ raised # <<>>
    /\ Len(stack) >= 3
    /\ Top.phase = "steps"
    /\ Top.j < Len(StepsOf(Top))
    /\ Len(log) >= 3


(***************************************************************************)
(* C18.  Every invocation starts the root with an empty state and with the *)
(* part of the user document under the root's slug (an empty mapping when  *)
(* there is none); the tree stays as construction left it; so whatever     *)
(* invocations came before, invocations with the same visitor and the same *)
(* user_params end the same way, with equal final states.                  *)
(***************************************************************************)
C18_InvocationsIndependent ==
    /\ (Invoked /\ log # <<>>) =>
          /\ log[1].node = root
          /\ log[1].sin = EmptyState
          /\ log[1].up = SubDoc(Doc, tree[root].slug)
    /\ pc \notin {"new", "failed"} =>
          tree \in {init_slugs(t, 1).tree : t \in RunPipelines \cup Pipelines}
    /\ \A a, b \in DOMAIN EndedRuns :
          EndedRuns[a].doc = EndedRuns[b].doc => EndedRuns[a].out = EndedRuns[b].out

\* a second invocation with the document of the first returned the same
\* final state, which holds what the steps wrote
C18_Witness ==
    /\ Len(runs) = 2
    /\ pc = "done"
    /\ runs[1].doc = runs[2].doc
    /\ runs[1].out.pc = "done"
    /\ runs[1].out.result = result
    /\ result # EmptyState
    /\ log # <<>> /\ log[1].sin = EmptyState


\* the calls activation r made for its guards, entry condition and children
\* (for a child Group or Repeat, the call of its enter hook), and the steps
\* a Group is to call in order
DirectCalls(r) ==
    {i \in Calls : log[i].caller = r /\ log[i].role \in LeafRoles \cup {"enter"}}
RankIn(D, i) == Cardinality({j \in D : j <= i})
EntryConditionSeq(n) == IF n.entry_condition = 0 THEN <<>> ELSE <<n.entry_condition>>
GroupSequence(r) ==
    NodeOf(r).given \o EntryConditionSeq(NodeOf(r))
        \o (IF GateOf(r) THEN NodeOf(r).steps ELSE <<>>)
EnterIndex(r) == CHOOSE i \in Calls : log[i].role = "enter" /\ log[i].inv = r
ExitIndex(r) == CHOOSE i \in Calls : log[i].role = "exit" /\ log[i].inv = r

(***************************************************************************)
(* C19.  For every Group activation that returned: enter_group and         *)
(* exit_group were called once each, and between them the activation made  *)
(* one call for each guard in declaration order, then for the entry        *)
(* condition if there is one, then, if the gate is open, for each child in *)
(* declaration order, and no other; every call of the invocation received  *)
(* the state the call before it returned, and the state the invocation     *)
(* returns is the one its last call, exit_group of the root, returned.     *)
(***************************************************************************)
C19_GroupCallOrder ==
    /\ \A r \in Activations :
          (IsGroupAct(r) /\ HasExit(r)) =>
              LET D == DirectCalls(r)
                  E == GroupSequence(r)
              IN  /\ Cardinality({i \in Calls : log[i].role = "enter" /\ log[i].inv = r}) = 1
                  /\ Cardinality({i \in Calls : log[i].role = "exit" /\ log[i].inv = r}) = 1
                  /\ log[ExitIndex(r)].op = "exit_group"
                  /\ Cardinality(D) = Len(E)
                  /\ \A i \in D :
                        /\ EnterIndex(r) < i /\ i < ExitIndex(r)
                        /\ RankIn(D, i) <= Len(E)
                        /\ log[i].node = E[RankIn(D, i)]
    /\ \A i \in Calls : i > 1 => log[i].sin = log[i - 1].sout
    /\ (pc = "done" /\ log # <<>>) => result = log[Len(log)].sout


\* the calls of visitor methods (logger.warn is not one)
VisitorCalls == {i \in Calls : log[i].role # "warn"}
\* the objects known before call i
ObjectsBefore(i) ==
    {0} \cup UNION {{log[j].wid, log[j].hid, log[j].rid} : j \in 1 .. (i - 1)}

(***************************************************************************)
(* C20.  The state object handed to a visitor method is a new object,      *)
(* neither the engine's working state nor any object met before, and the   *)
(* engine goes on with the object the method returned: the next call is    *)
(* made from it and receives what it held, the invocation returns it, and  *)
(* an object that was handed over and not returned is never the working    *)
(* state of a later call.                                                  *)
(***************************************************************************)
C20_VisitorGetsCopy ==
    /\ \A i \in VisitorCalls :
          /\ log[i].hid # log[i].wid
          /\ log[i].hid \notin ObjectsBefore(i)
          /\ \A j \in Calls :
                (j > i /\ log[i].rid # log[i].hid) => log[j].wid # log[i].hid
          /\ (i < Len(log)) =>
                /\ log[i + 1].wid = log[i].rid
                /\ log[i + 1].sin = log[i].sout
    /\ (pc = "done" /\ log # <<>>) =>
          /\ sid = log[Len(log)].rid
          /\ result = log[Len(log)].sout

\* a transform returned a new mapping and the following call worked on it
C20_Witness ==
    \E i \in VisitorCalls :
        /\ log[i].op = "transform"
        /\ log[i].rid # log[i].hid
        /\ i < Len(log)
        /\ log[i + 1].wid = log[i].rid
        /\ log[i + 1].sin = log[i].sout
        /\ log[i].sout # log[i].sin


\* the trees construction leaves
ConstructedTrees == {init_slugs(t, 1).tree : t \in Pipelines \cup RunPipelines}
\* a resolved element is a value, no longer a declaration
IsValue(v) == v.t \in {"none", "int", "str", "bool", "dec"}

(***************************************************************************)
(* C21.  Resolution changes nothing it reads.  After any number of         *)
(* resolutions the tree holds the declared fields and args construction    *)
(* left; the state handed to the visitor after the resolution is the       *)
(* state the call before returned, and the user_params of the step are     *)
(* still the part of the invocation's document under the step's path; the  *)
(* step handed to the visitor holds values in place of the declarations;   *)
(* and each execution of a step resolves its Refs against the state of     *)
(* that execution and its Params against the document, whatever earlier    *)
(* executions of the step resolved to.                                     *)
(***************************************************************************)
C21_ResolutionIsPure ==
    /\ pc \notin {"new", "failed"} => tree \in ConstructedTrees
    /\ Invoked =>
          \A i \in LeafCalls :
              LET n == log[i].node
              IN  /\ i > 1 => log[i].sin = log[i - 1].sout
                  /\ log[i].up = UserParamsOf(n)
                  /\ Len(log[i].step.fields) = Len(tree[n].fields)
                  /\ \A k \in DOMAIN log[i].step.fields : IsValue(log[i].step.fields[k])
                  /\ \A k \in DOMAIN log[i].step.args : IsValue(log[i].step.args[k])
                  /\ \A k \in RefElements(n) :
                        ResolvedElement(log[i], k) =
                            IF ElementsOf(n)[k].p.key \in DOMAIN log[i].sin
                            THEN Stored(log[i].sin, ElementsOf(n)[k].p.key)
                            ELSE ElementsOf(n)[k].p.default
                  /\ \A k \in ParamFields(n) :
                        Present(RawOf(n, tree[n].fields[k])) =>
                            HasType(log[i].step.fields[k], tree[n].fields[k].type)

\* a step of a Repeat was resolved in two iterations: its Ref gave the
\* default first and then the value the first execution stored
C21_Witness ==
    \E i, j \in LeafCalls :
        /\ i < j
        /\ log[i].node = log[j].node
        /\ RefElements(log[i].node) = {1}
        /\ ResolvedElement(log[i], 1) = IntVal(7)
        /\ ResolvedElement(log[j], 1) = IntVal(1)


(***************************************************************************)
(* C22.  Every error of the core is of the family the specification gives  *)
(* it: a failed construction (duplicate slug), InvalidFormalParamTypeError *)
(* and InvalidChainEffectError are PipelineDefinitionErrors; the errors of *)
(* a missing required user parameter, of a failed coercion and of a        *)
(* missing required state reference are PipelineExecutionErrors.           *)
(***************************************************************************)
C22_ErrorFamilies ==
    /\ pc = "failed" => Family(err) = "PipelineDefinitionError"
    /\ (pc = "error" /\ err \in {"InvalidFormalParamTypeError", "InvalidChainEffectError"})
          => Family(err) = "PipelineDefinitionError"
    /\ (pc = "error" /\ err \in {"MissingParamError", "InvalidParamTypeError",
                                 "InvalidReferenceError"})
          => Family(err) = "PipelineExecutionError"


\* a value as a JSON document holds it: a Decimal by its digits
Exported(val) == IF val.t = "dec" THEN StrVal(val.v) ELSE val

(***************************************************************************)
(* C23.  For every Param of the schema, the initial-values document holds  *)
(* the Param's default when it has one, otherwise the zero value of its    *)
(* type when it is required, otherwise nothing (null): so a Param that is  *)
(* not required and has a default is exported with that default.           *)
(***************************************************************************)
C23_InitialIsDefaultWhenSet ==
    pc \notin {"new", "failed"} =>
        \A q \in DOMAIN params(tree, root) :
            LET p == params(tree, root)[q]
            IN  initial_params_json(tree, root)[q] =
                    Exported(IF p.default # NoneVal THEN p.default
                             ELSE IF p.required THEN ZeroOf(p.type) ELSE NoneVal)


\* some child of r returned a chain effect in an iteration up to c
EffectUpTo(r, c) == \E k \in 0 .. c : IterationEffect(r, k)
\* r began a pass after pass c: a guard, the entry condition or a child of it
PassAfter(r, c) == \E i \in Calls : log[i].caller = r /\ log[i].c > c
\* the pass of r that was its last ended on a falsy entry condition
EndedOnCondition(r) ==
    /\ NodeOf(r).entry_condition # 0
    /\ \E i \in ConditionCalls(r, ExitOf(r).it) : ~Truthy(log[i].sout)
    /\ ExitOf(r).it \notin Iterations(r)

Warned(r) == \E i \in Calls : log[i].role = "warn" /\ log[i].inv = r
\* the index of the last pass r began (0 when it made no call in any pass)
LastStarted(r) ==
    LET cs == {log[i].c : i \in {i \in Calls : log[i].caller = r}} \cup {0}
    IN  CHOOSE c \in cs : \A d \in cs : d <= c

(***************************************************************************)
(* C25.  A Repeat that returned has emitted the cap-reached warning        *)
(* exactly when the index of the last pass it began is at least max - 1    *)
(* (the index is 0 when no pass began): also when that pass ended on a     *)
(* falsy entry condition or for want of a chain effect, always when max    *)
(* is 1, and, with no call made for any guard, condition or child, when    *)
(* max <= 0; never when the loop stopped in a pass below max - 1.  The     *)
(* warning comes once, right before exit_repeat.                           *)
(***************************************************************************)
C25_WarningAtLastIndex ==
    \A r \in Activations :
        (IsRepeatAct(r) /\ HasExit(r)) =>
            LET m == EnterOf(r).max
            IN  /\ Warned(r) <=> LastStarted(r) >= m - 1
                /\ m = 1 => Warned(r)
                /\ m <= 0 => (Warned(r) /\ \A i \in Calls : log[i].caller # r)
                /\ LastStarted(r) < m - 1 => ~Warned(r)
                /\ Cardinality({i \in Calls : log[i].role = "warn" /\ log[i].inv = r}) <= 1
                /\ \A i \in Calls :
                      (log[i].role = "warn" /\ log[i].inv = r) =>
                          (log[i + 1].role = "exit" /\ log[i + 1].inv = r)

\* a Repeat with max 2 warned although its second pass ended on a falsy
\* entry condition
C25_Witness ==
    \E r \in Activations :
        /\ IsRepeatAct(r) /\ HasExit(r) /\ Warned(r)
        /\ EnterOf(r).max = 2
        /\ LastStarted(r) = 1
        /\ EndedOnCondition(r)


\* some element of step n does not resolve against the current state and
\* the document of the invocation
WouldRaise(n) ==
    /\ AcceptCallsVisitor(tree[n].cls)
    /\ \E k \in DOMAIN ElementsOf(n) : ~ElementResolves(n, k)
\* activation r evaluated its gate and found it closed / r is a Repeat whose
\* range(max) is empty
GateClosed(r) ==
    /\ NodeOf(r).entry_condition # 0
    /\ \E i \in ConditionCalls(r, 0) : ~log[i].raised /\ ~log[i].ce /\ ~Truthy(log[i].sout)
ZeroIterations(r) == IsRepeatAct(r) /\ EnterOf(r).max <= 0
ChildrenOf(r) == {NodeOf(r).steps[j] : j \in DOMAIN NodeOf(r).steps}

(***************************************************************************)
(* C26.  The children of a Group whose gate is closed, and of a Repeat     *)
(* that runs no iteration, are not resolved: none of them is called or     *)
(* raises, also when its resolution would raise, and the composite goes on *)
(* to its exit.  An invocation that returned a state resolved no step      *)
(* whose resolution would raise.                                           *)
(***************************************************************************)
C26_ErrorsOnlyWhenReached ==
    Invoked =>
        /\ \A r \in Activations :
              (GateClosed(r) \/ ZeroIterations(r)) =>
                  /\ \A i \in Calls : log[i].caller = r => log[i].role \notin {"step", "enter"}
                  /\ ChildStarts(r, 0, 1) = {}
                  /\ (pc = "error") => HasExit(r)
        /\ pc = "done" =>
              \A n \in LeafNodes :
                  WouldRaise(n) => (~Called(n) /\ ~Reached(n))

\* the invocation returned a state although a closed Group holds children
\* with an invalid field, an uncoercible literal and a missing reference,
\* and a Repeat with max 0 a child whose required Params are missing
C26_Witness ==
    /\ pc = "done"
    /\ \E r \in Activations :
          /\ IsGroupAct(r) /\ GateClosed(r) /\ HasExit(r)
          /\ Cardinality({n \in ChildrenOf(r) : WouldRaise(n)}) = 3
    /\ \E r \in Activations :
          /\ ZeroIterations(r) /\ HasExit(r)
          /\ \E n \in ChildrenOf(r) : WouldRaise(n) /\ Unsupplied(n) # {}


\* Param p has a default; the sub-document of step n holds p's key with an
\* empty value / does not hold the key
HasDefault(p) == p.tag = "param" /\ p.default \notin {NoneVal, StrVal("")}
KeyEmpty(n, p) ==
    /\ <<p.key>> \in DOMAIN UserParamsOf(n)
    /\ UserParamsOf(n)[<<p.key>>] \in {NoneVal, StrVal("")}
KeyAbsent(n, p) == <<p.key>> \notin DOMAIN UserParamsOf(n)
CallsOf(n) == {i \in LeafCalls : log[i].node = n}

ConditionReturns == {i \in Calls : log[i].role = "entry_condition" /\ ~log[i].raised /\ ~log[i].ce}
HasCondition(st) == "_condition_" \in DOMAIN st
\* the call left `_condition_` as it received it
KeepsCondition(i) ==
    /\ HasCondition(log[i].sin) = HasCondition(log[i].sout)
    /\ HasCondition(log[i].sin) => log[i].sin["_condition_"] = log[i].sout["_condition_"]
\* activation r began a child in pass c
ChildBegun(r, c) ==
    \E i \in Calls : log[i].caller = r /\ log[i].c = c /\ log[i].role \in {"step", "enter"}

(***************************************************************************)
(* C28.  A composite with an entry condition executes children in a pass   *)
(* only if the state its entry-condition call of that pass returned holds  *)
(* a truthy `_condition_`: a returned state without the key closes the     *)
(* gate.  Every call receives the state the previous call returned, so a   *)
(* `_condition_` once stored is in the state of every later call and in    *)
(* the final state, unless a visitor method removed it; an entry condition *)
(* whose visitor leaves the key as received is decided by the value it     *)
(* received.                                                               *)
(***************************************************************************)
C28_GateReadsConditionKey ==
    Invoked =>
        /\ \A i \in ConditionReturns :
              LET r == log[i].caller
                  c == log[i].c
              IN  /\ ChildBegun(r, c) => Truthy(log[i].sout)
                  /\ ~HasCondition(log[i].sout) => ~ChildBegun(r, c)
                  /\ (KeepsCondition(i) /\ ChildBegun(r, c)) => Truthy(log[i].sin)
                  /\ (pc = "done" /\ Truthy(log[i].sout)) =>
                        \A j \in DOMAIN NodeOf(r).steps :
                            AcceptCallsVisitor(tree[NodeOf(r).steps[j]].cls)
                                => ChildStarts(r, c, j) # {}
        /\ \A r \in Activations :
              NodeOf(r).entry_condition # 0 =>
                  \A c \in Iterations(r) : \E i \in ConditionReturns :
                      log[i].caller = r /\ log[i].c = c
        /\ \A i \in Calls : (i > 1 /\ ~log[i - 1].raised) => log[i].sin = log[i - 1].sout
        /\ (pc = "done" /\ log # <<>>) => result = log[Len(log)].sout

\* an entry condition stored TRUE; a later entry condition of another
\* composite returned the state as received, its children were executed on
\* the stale value, and the final state still holds the key
C28_Witness ==
    /\ pc = "done"
    /\ HasCondition(result)
    /\ \E i, j \in ConditionReturns :
          /\ i < j /\ log[i].caller # log[j].caller /\ log[i].node # log[j].node
          /\ ~HasCondition(log[i].sin) /\ Truthy(log[i].sout)
          /\ KeepsCondition(j) /\ log[j].sin = log[j].sout
          /\ ChildBegun(log[j].caller, log[j].c)


\* the activations of the composites whose accept() is on the call stack,
\* and the calls of the enter and of the exit hooks
OnPath == {stack[k].inv : k \in {k \in DOMAIN stack : stack[k].kind # "Call"}}
EnterCalls == {i \in Calls : log[i].role = "enter"}
ExitCalls == {i \in Calls : log[i].role = "exit"}

(***************************************************************************)
(* C29.  Once an error was raised, no exit hook is called any more: every  *)
(* composite whose accept() the error passes through was entered and has  *)
(* no exit call, these are the failing composite and all the composites    *)
(* around it, and every other entered composite had exited before the      *)
(* raise.  In a run that returned a state every enter call has its exit    *)
(* call.                                                                   *)
(***************************************************************************)
C29_NoExitHookAfterError ==
    /\ raised # <<>> =>
          /\ \A i \in ExitCalls : i <= raised[1].at
          /\ raised[1].at = Len(log)
          /\ \A r \in OnPath : r \in Activations /\ ~HasExit(r)
          /\ \A r \in Activations : HasExit(r) <=> r \notin OnPath
          /\ \A r \in OnPath : Enclosing(r) \subseteq OnPath
          /\ Cardinality(EnterCalls) = Cardinality(ExitCalls) + Cardinality(OnPath)
    /\ pc = "done" => \A r \in Activations : HasExit(r)

\* the guard of a Repeat inside a Group raised MissingParamError during its
\* resolution: enter_group and enter_repeat were called, no exit hook was
C29_Witness ==
    /\ pc = "error" /\ err = "MissingParamError"
    /\ Cardinality(OnPath) = 2
    /\ \E r, q \in OnPath :
          /\ IsGroupAct(r) /\ IsRepeatAct(q) /\ EnterOf(q).caller = r
          /\ stack[Len(stack)].inv = q /\ stack[Len(stack)].phase = "given"
    /\ ExitCalls = {}


\* step y is visited before step x in the depth-first walk, taken from the
\* nesting of the slug paths
VisitOrder == WalkPaths(tree, root, <<>>)
VisitRank(n) == CHOOSE i \in DOMAIN VisitOrder : VisitOrder[i].step = n
VisitedBefore(y, x) == VisitRank(y) < VisitRank(x)
HeldBefore(y) == {tree[h].slug : h \in {h \in DOMAIN tree : VisitedBefore(h, y)}} \ {""}
\* the tree as written, and with the written slugs of x and y exchanged
AsWritten == [n \in DOMAIN tree |-> [tree[n] EXCEPT !.slug = author[n]]]
Exchanged(x, y) ==
    [AsWritten EXCEPT ![x].slug = author[y], ![y].slug = author[x]]

(***************************************************************************)
(* C30.  For a step x with a written slug and a step y without one:  when  *)
(* y is visited before x in the depth-first walk and was given the slug    *)
(* written for x, or would be (the slug is the snake_case name of y's      *)
(* class and no step visited before y holds it), construction fails with   *)
(* the duplicate-slug error;  when x is visited before y, a successful     *)
(* construction gives y the name with the least suffix _i, i >= 1, not     *)
(* held by a step visited before y;  a construction fails only for a       *)
(* written slug that a step visited earlier holds;  and a tree whose only  *)
(* written slug is a class's snake_case name, on a step visited before     *)
(* every other step of that class, constructs.                             *)
(***************************************************************************)
C30_SlugsDependOnWalkOrder ==
    Constructed =>
        /\ \A x, y \in DOMAIN tree :
              (author[x] # "" /\ author[y] = "") =>
                  /\ (VisitedBefore(y, x) /\ tree[y].slug = author[x])
                        => (pc = "failed" /\ err = "RuntimeError")
                  /\ ( /\ VisitedBefore(y, x)
                       /\ author[x] = SnakeCase(tree[y].cls)
                       /\ author[x] \notin HeldBefore(y) )
                        => pc = "failed"
                  /\ ( /\ VisitedBefore(x, y)
                       /\ author[x] = SnakeCase(tree[y].cls)
                       /\ pc = "ready" )
                        => \E i \in 1 .. Len(tree) :
                              /\ tree[y].slug = Suffixed(author[x], i)
                              /\ Suffixed(author[x], i) \notin HeldBefore(y)
                              /\ \A i2 \in 1 .. (i - 1) :
                                    Suffixed(author[x], i2) \in HeldBefore(y)
        /\ pc = "failed" =>
              \E x, h \in DOMAIN tree :
                  /\ author[x] # "" /\ VisitedBefore(h, x)
                  /\ tree[h].slug = author[x]
        /\ \A x \in DOMAIN tree :
              ( /\ \A n \in DOMAIN tree : (author[n] # "") <=> (n = x)
                /\ \E y \in DOMAIN tree : SnakeCase(tree[y].cls) = author[x]
                /\ \A y \in DOMAIN tree :
                      (y # x /\ SnakeCase(tree[y].cls) = author[x]) => VisitedBefore(x, y) )
                  => pc = "ready"

\* "transform" was written for the Transform visited first and the next
\* Transform became transform_1; the same tree with the written slug on the
\* later step does not construct
C30_Witness ==
    /\ pc = "ready"
    /\ \E x, y \in DOMAIN tree :
          /\ tree[x].cls = "Transform" /\ tree[y].cls = "Transform"
          /\ author[x] = "transform" /\ author[y] = ""
          /\ VisitedBefore(x, y)
          /\ tree[y].slug = "transform_1"
          /\ \A n \in DOMAIN tree : (n # x) => author[n] = ""
          /\ ~init_slugs(Exchanged(x, y), root).ok
          /\ init_slugs(Exchanged(x, y), root).tree[x].slug = "transform"

====
